---- MODULE Spec2Model ----
(***************************************************************************)
(* Model of the resource-control plane of the recon scanner:               *)
(*   - the channel-based ConnectionPool   (package pool,   part_004)       *)
(*   - the dynamically sized WorkerPool   (package worker, part_007)       *)
(*   - the Scheduler with its Config and the two monitors                  *)
(*     (packages scheduler, config, monitor)                               *)
(* Each subsystem has its own next-state relation; the variables of the    *)
(* other subsystem stay unchanged.                                         *)
(***************************************************************************)
EXTENDS Integers, Sequences, FiniteSets, TLC

VARIABLES
    \* ---- ConnectionPool (part_004) ----
    now,              \* wall clock, in abstract duration units
    pools,            \* cp.pools: target -> host pool object id (0 = no entry)
    hps,              \* the HostPool objects, by id
    globalConnCount,  \* cp.globalConnCount
    cancelled,        \* cp.ctx has been cancelled
    poolClosed,       \* ConnectionPool.Close has returned
    cleanupLoop,      \* cleanupRoutine: "wait" | "exited"
    crashed,          \* an unrecovered panic ended the process
    pc,               \* per caller goroutine: position inside GetConnection
    tgt,              \* per caller: the target of the call in progress
    hp,               \* per caller: local variable hostPool (0 = nil)
    held,             \* per caller: the connection the caller has checked out
    res,              \* per caller: outcome of its last GetConnection or ReturnConnection
    parked,           \* pooled connections kept checked out by other callers
    calls,            \* number of GetConnection calls made so far
    sweepClosed,      \* the cleanup sweep has closed a connection (sequential scenario)
    \* ---- WorkerPool (part_007) ----
    wcfg,             \* the HighPerformanceConfig the pool was built with
    optimal,          \* what monitor.GetOptimalWorkerCount() currently returns
    workers,          \* wp.workers: sequence of executor ids
    wstate,           \* per executor id: "none" | "idle" | "busy" | "exited"
    wtask,            \* per executor id: the task being processed (0 = zero Task)
    wquit,            \* per executor id: its quit channel has been closed
    activeCount,      \* wp.activeCount
    wgCount,          \* wp.wg counter
    taskChan,         \* wp.taskChan contents
    taskClosed,       \* wp.taskChan has been closed
    resultChan,       \* wp.resultChan contents
    wpCancelled,      \* wp.ctx has been cancelled
    started,          \* Start has run
    stopPc,           \* Stop: "none" | "cancelled" | "waiting" | "returned"
    mgrPc,            \* scaleManager: "off" | "wait" | "adjust" | "exited"
    handlerPc,        \* resultHandler: "off" | "run" | "exited"
    subPc,            \* per submitter: "idle" | "sending"
    subTask,          \* per submitter: the task of its current or last SubmitTask (0 = none yet)
    subFull,          \* per submitter: the queue was full when that SubmitTask was called
    nextTask,         \* id of the next task to be submitted
    accepted,         \* tasks that entered the task queue
    processedCount,   \* wp.processedCount
    errorCount,       \* wp.errorCount
    c0,               \* activeCount when the monitor's target last changed
    ticks,            \* adjustWorkerCount calls completed since then
    changes,          \* changes of the monitor's recommendation so far
    zeroTaken,        \* zero Tasks received from the closed queue so far
    wpCrashed,        \* an unrecovered panic ended the process
    \* ---- Scheduler, Config and the monitors ----
    scfg,             \* the Config the scheduler was built with
    clock,            \* time.Now(): [month, day, tod]
    memPercent,       \* s.systemMetrics.MemoryPercent, in hundredths
    temperature,      \* s.systemMetrics.CPUTemperature, in degrees Celsius
    errorRate,        \* s.errorRate, in hundredths
    throttleLevel,    \* s.throttleLevel
    currentMode,      \* s.currentMode
    health,           \* HealthMonitor.health: MemoryUsage, CPUTemperature, ErrorRate
    smMetrics,        \* SystemMonitor.metrics: CPUTemp, MemoryPercent, ErrorRate (percent)
    lastBase,         \* argument of the last GetAdaptiveDelay call, in microseconds (0 = none)
    lastDelay,        \* what that call returned, in microseconds
    throttled,        \* what the last Scheduler.ShouldThrottle call returned ("none" before)
    profile,          \* what the last Config.GetCurrentProfile call returned ("none" before)
    profileAt,        \* the instant of that call
    \* ---- HealthMonitor batch sizing ----
    batch,            \* the last GetOptimalBatchSize call: base, size, profile, via
    \* ---- outcome counters ----
    metricCounts,     \* s.systemMetrics: SuccessCount, ErrorCount
    hmCounts,         \* HealthMonitor: errorCount, requestCount
    \* ---- HealthMonitor alerts ----
    alertChan,        \* h.alertChan: number of alerts queued
    alerts,           \* len(h.health.Alerts)
    hmMutex,          \* h.mutex: "free" | "sampler" | "handler"
    samplerPc,        \* monitor: "off" | "idle" | "check" | "exited"
    pending,          \* checkAlerts: the alerts it has still to send
    alertPc,          \* handleAlerts: "off" | "wait" | "lock" | "locked" | "exited"
    lastSend,         \* outcome of the last sendAlert: "none" | "queued" | "dropped"
    hmCancelled,      \* h.ctx has been cancelled
    \* ---- Scanner batch loops ----
    scanPc,           \* the batch loop: "idle" | "launch" | "wait" | "save" | "done"
    batchIndex,       \* the batch being processed (1 is the first)
    units,            \* per batch and unit of work: "none" | "acquire" | "running" |
                      \* "released" | "errored" (work over, semaphore released) |
                      \* "saved" | "failed" (goroutine ended)
    scanWg,           \* the batch's WaitGroup counter
    scanSem,          \* tokens held in the batch's semaphore
    semCap,           \* capacity of the semaphore: profile.WorkerCount
    checkpoint,       \* batch of the last progress checkpoint saved (0 = none)
    \* ---- Scanner and Scheduler background loops ----
    scannerPc,        \* the Scanner: "new" | "running" | "returned" | "closed"
    schCancelled,     \* the Scheduler's ctx has been cancelled
    runPc,            \* Scheduler.run: "off" | "wait" | "exited"
    monitorPc,        \* Scheduler.monitorResources: "off" | "wait" | "exited"
    healthLoopPc,     \* Scanner.healthMonitoringLoop: "off" | "wait" | "report"
    \* ---- processDomains (part_008) ----
    pdConfig,         \* cfg: BatchSize, MinBatchSize
    domainCount,      \* len(domains)
    pdPc,             \* "idle" | "top" | "submit" | "done" | "returned"
    pdI,              \* the loop variable i
    batchSize,        \* the local variable batchSize
    batchStart,       \* start of the current batch
    batchEnd,         \* end of the current batch
    pdJ,              \* index in domains of the next domain of the batch to submit
    submitted,        \* per index in domains: SubmitTask calls made for it
    pdCancelled,      \* ctx has been cancelled
    \* the pool directory and its lock, seen by cleanup and by getOrCreateHostPool
    poolMutex,        \* cp.poolMutex: its writer, waiting writers and readers
    directory,        \* cp.pools: per target "absent", "fresh" or "stale"
    pooledConns,      \* per target, connections buffered in its host pool
    sweepPc,          \* position of cleanup
    sweepTodo,        \* targets the range loop of cleanup has still to visit
    sweepTarget,      \* target whose pool cleanup is working on
    sweepLeft,        \* connections cleanup has still to close in that pool
    getPc,            \* per caller, position in getOrCreateHostPool
    getTarget,        \* per caller, the target it asked for
    \* resolveDNS over interrupted and resumed runs
    rdPc,             \* position of resolveDNS
    rdRuns,           \* runs of resolveDNS started so far
    startIndex,       \* index the run resumed from
    remainingDomains, \* indexes of the domains the run has to process, in order
    rdBatchIndex,     \* batchIndex of the loop
    rdBatchSize,      \* batchSize of the run
    lastProgress,     \* ItemIndex of the latest progress row, -1 without one
    attempted,        \* indexes of the domains ever passed to ResolveDomain
    processedDomains  \* indexes of the domains saved in the domains table

cpVars == <<now, pools, hps, globalConnCount, cancelled, poolClosed, cleanupLoop,
            crashed, pc, tgt, hp, held, res, parked, calls, sweepClosed>>
wpVars == <<wcfg, optimal, workers, wstate, wtask, wquit, activeCount, wgCount,
            taskChan, taskClosed, resultChan, wpCancelled, started, stopPc, mgrPc,
            handlerPc, subPc, subTask, subFull, nextTask, accepted, processedCount,
            errorCount, c0, ticks, changes, zeroTaken, wpCrashed>>
schVars == <<scfg, clock, memPercent, temperature, errorRate, throttleLevel,
             currentMode, health, smMetrics, lastBase, lastDelay, throttled, profile,
             profileAt>>
\* The state added to the monitors and the scanner, by area.
batchVars == <<batch>>
countVars == <<metricCounts, hmCounts>>
alertVars == <<alertChan, alerts, hmMutex, samplerPc, pending, alertPc, lastSend,
               hmCancelled>>
scanVars == <<scanPc, batchIndex, units, scanWg, scanSem, checkpoint, semCap>>
loopVars == <<scannerPc, schCancelled, runPc, monitorPc, healthLoopPc>>
domVars == <<pdConfig, domainCount, pdPc, pdI, batchSize, batchStart, batchEnd, pdJ,
             submitted, pdCancelled>>
lockVars == <<poolMutex, directory, pooledConns, sweepPc, sweepTodo, sweepTarget, sweepLeft,
              getPc, getTarget>>
resVars == <<rdPc, rdRuns, startIndex, remainingDomains, rdBatchIndex, rdBatchSize,
             lastProgress, attempted, processedDomains>>
extVars == <<batchVars, countVars, alertVars, scanVars, loopVars, domVars, lockVars, resVars>>
vars == <<cpVars, wpVars, schVars, extVars>>

Min(a, b) == IF a < b THEN a ELSE b
Abs(a) == IF a < 0 THEN -a ELSE a

(***************************************************************************)
(*                          ConnectionPool                                 *)
(***************************************************************************)

\* config.ConnectionPoolSize, config.MaxConnectionsPerWorker, config.KeepAlive:
\* inputs of NewConnectionPool.
ConnectionPoolSize == 10
MaxConnectionsPerWorker == 1
KeepAlive == 1
\* The clock stops advancing here (concurrent scenario, sequential scenario).
MaxTime == 3
MaxTimeSeq == 2
\* GetConnection calls made in a run of the concurrent scenario.
MaxCalls == 3
\* The sequential scenario counts its calls up to this number.
CallsCap == 103

\* isConnectionValid: the literal use-count limit.
UsageCeiling == 100

Procs == {1, 2}
Targets == {"a:1", "b:2"}
SeqCaller == CHOOSE p \in Procs : \A q \in Procs : p <= q
SeqTarget == "a:1"

\* NewConnectionPool: maxPools and maxConnPerPool.
maxPools == ConnectionPoolSize \div 10
maxConnPerPool == MaxConnectionsPerWorker

HpIds == 1..(maxPools + Cardinality(Procs))
NoPool == 0

\* A nil *PooledConnection / no connection.
NoConn == [host |-> "", createdAt |-> 0, lastUsed |-> 0, useCount |-> 0, pool |-> NoPool]
\* A HostPool object slot that holds no object.
FreeHp == [host |-> "", connections |-> <<>>, closed |-> FALSE, lastUsed |-> 0, used |-> FALSE]

isConnectionValidNoAge(c, t) ==
    /\ c # NoConn
    /\ ~(c.useCount > UsageCeiling)

isConnectionValidHalfAge(c, t) ==
    /\ c # NoConn
    /\ ~(t - c.createdAt >= KeepAlive)
    /\ ~(c.useCount > UsageCeiling)

\* isConnectionValid
isConnectionValid(c, t) ==
    /\ c # NoConn
    /\ ~(t - c.createdAt > KeepAlive * 2)
    /\ ~(c.useCount > UsageCeiling)

\* Host pool objects nobody references any more are forgotten.
Collect(h, dir, locals, helds) ==
    [i \in HpIds |->
        IF \/ \E t \in Targets : dir[t] = i
           \/ \E p \in Procs : locals[p] = i \/ helds[p].pool = i
        THEN h[i] ELSE FreeHp]

DirSize(dir) == Cardinality({t \in Targets : dir[t] # NoPool})

PoolCapReachedOffByOne(dir) == DirSize(dir) > maxPools

\* getOrCreateHostPool: len(cp.pools) >= cp.maxPools
PoolCapReached(dir) == DirSize(dir) >= maxPools

HostPoolFullOffByOne(h) == Len(h.connections) > maxConnPerPool

\* The buffered channel of a host pool (capacity maxConnPerPool) accepts no send.
HostPoolFull(h) == Len(h.connections) >= maxConnPerPool

InitCP ==
    /\ now = 0
    /\ pools = [t \in Targets |-> NoPool]
    /\ hps = [i \in HpIds |-> FreeHp]
    /\ globalConnCount = 0
    /\ cancelled = FALSE
    /\ poolClosed = FALSE
    /\ cleanupLoop = "wait"
    /\ crashed = FALSE
    /\ pc = [p \in Procs |-> "idle"]
    /\ tgt = [p \in Procs |-> ""]
    /\ hp = [p \in Procs |-> NoPool]
    /\ held = [p \in Procs |-> NoConn]
    /\ res = [p \in Procs |-> "none"]
    /\ parked = 0
    /\ calls = 0
    /\ sweepClosed = FALSE

\* time passes
Tick(limit) ==
    /\ ~crashed
    /\ now < limit
    /\ now' = now + 1
    /\ UNCHANGED <<wpVars, schVars, extVars, pools, hps, globalConnCount, cancelled,
                   poolClosed, cleanupLoop, crashed, pc, tgt, hp, held, res, parked,
                   calls, sweepClosed>>

\* GetConnection entry and the read-locked lookup of getOrCreateHostPool.
GetConnection(p, t) ==
    /\ ~crashed
    /\ pc[p] = "idle"
    /\ held[p] = NoConn
    /\ tgt' = [tgt EXCEPT ![p] = t]
    /\ res' = [res EXCEPT ![p] = "none"]
    /\ IF pools[t] # NoPool
       THEN /\ hp' = [hp EXCEPT ![p] = pools[t]]
            /\ hps' = [hps EXCEPT ![pools[t]].lastUsed = now]
            /\ pc' = [pc EXCEPT ![p] = "pop"]
       ELSE /\ pc' = [pc EXCEPT ![p] = "create"]
            /\ UNCHANGED <<hp, hps>>
    /\ UNCHANGED <<wpVars, schVars, extVars, now, pools, globalConnCount, cancelled,
                   poolClosed, cleanupLoop, crashed, held, parked>>

\* getOrCreateHostPool, the write-locked part: double check, cap check, creation.
getOrCreateHostPool(p) ==
    /\ ~crashed
    /\ pc[p] = "create"
    /\ IF pools[tgt[p]] # NoPool
       THEN /\ hp' = [hp EXCEPT ![p] = pools[tgt[p]]]
            /\ pc' = [pc EXCEPT ![p] = "pop"]
            /\ UNCHANGED <<pools, hps>>
       ELSE IF PoolCapReached(pools)
       THEN /\ hp' = [hp EXCEPT ![p] = NoPool]
            /\ pc' = [pc EXCEPT ![p] = "direct"]
            /\ UNCHANGED <<pools, hps>>
       ELSE LET i == CHOOSE j \in HpIds : ~hps[j].used /\ \A k \in HpIds : ~hps[k].used => j <= k
            IN /\ hps' = [hps EXCEPT ![i] = [host |-> tgt[p], connections |-> <<>>,
                                              closed |-> FALSE, lastUsed |-> now, used |-> TRUE]]
               /\ pools' = [pools EXCEPT ![tgt[p]] = i]
               /\ hp' = [hp EXCEPT ![p] = i]
               /\ pc' = [pc EXCEPT ![p] = "pop"]
    /\ UNCHANGED <<wpVars, schVars, extVars, now, globalConnCount, cancelled,
                   poolClosed, cleanupLoop, crashed, tgt, held, res, parked, calls,
                   sweepClosed>>

\* GetConnection's non-blocking receive from the host pool; a valid connection
\* is handed out, an invalid one is closed and creation follows.
PopConnection(p) ==
    /\ ~crashed
    /\ pc[p] = "pop"
    /\ LET h == hps[hp[p]]
       IN IF h.closed
          \* receive on the closed, drained channel yields nil; nil.Close() panics
          THEN /\ crashed' = TRUE
               /\ UNCHANGED <<hps, held, res, pc, hp, tgt>>
          ELSE IF h.connections = <<>>
          THEN /\ pc' = [pc EXCEPT ![p] = "check"]
               /\ UNCHANGED <<hps, held, res, hp, crashed, tgt>>
          ELSE LET c == Head(h.connections)
                   rest == [hps EXCEPT ![hp[p]].connections = Tail(h.connections)]
               IN IF isConnectionValid(c, now)
                  THEN /\ held' = [held EXCEPT ![p] =
                                     [c EXCEPT !.lastUsed = now, !.useCount = c.useCount + 1]]
                       /\ res' = [res EXCEPT ![p] = "reused"]
                       /\ pc' = [pc EXCEPT ![p] = "idle"]
                       /\ hp' = [hp EXCEPT ![p] = NoPool]
                       /\ tgt' = [tgt EXCEPT ![p] = ""]
                       /\ hps' = rest
                       /\ UNCHANGED crashed
                  ELSE /\ pc' = [pc EXCEPT ![p] = "check"]
                       /\ hps' = rest
                       /\ UNCHANGED <<held, res, hp, crashed, tgt>>
    /\ UNCHANGED <<wpVars, schVars, extVars, now, pools, globalConnCount, cancelled,
                   poolClosed, cleanupLoop, parked, calls, sweepClosed>>

LimitReachedOffByOne == globalConnCount > ConnectionPoolSize

\* createPooledConnection: the test of the global connection limit.
LimitReached == globalConnCount >= ConnectionPoolSize

\* createPooledConnection, the read-locked limit check.
createPooledConnectionCheck(p) ==
    /\ ~crashed
    /\ pc[p] = "check"
    /\ IF LimitReached
       THEN /\ res' = [res EXCEPT ![p] = "err_limit"]
            /\ pc' = [pc EXCEPT ![p] = "idle"]
            /\ hp' = [hp EXCEPT ![p] = NoPool]
            /\ tgt' = [tgt EXCEPT ![p] = ""]
            /\ hps' = Collect(hps, pools, hp', held)
       ELSE /\ pc' = [pc EXCEPT ![p] = "dial"]
            /\ UNCHANGED <<res, hp, hps, tgt>>
    /\ UNCHANGED <<wpVars, schVars, extVars, now, pools, globalConnCount, cancelled,
                   poolClosed, cleanupLoop, crashed, held, parked, calls, sweepClosed>>

\* createPooledConnection: the dial, then the counters and the new object.
createPooledConnectionDial(p) ==
    /\ ~crashed
    /\ pc[p] = "dial"
    /\ \/ /\ globalConnCount' = globalConnCount + 1
          /\ held' = [held EXCEPT ![p] = [host |-> tgt[p], createdAt |-> now,
                                          lastUsed |-> now, useCount |-> 1, pool |-> hp[p]]]
          /\ res' = [res EXCEPT ![p] = "new"]
          /\ hp' = [hp EXCEPT ![p] = NoPool]
          /\ UNCHANGED hps
       \/ /\ res' = [res EXCEPT ![p] = "err_dial"]
          /\ hp' = [hp EXCEPT ![p] = NoPool]
          /\ hps' = Collect(hps, pools, hp', held)
          /\ UNCHANGED <<globalConnCount, held>>
    /\ pc' = [pc EXCEPT ![p] = "idle"]
    /\ tgt' = [tgt EXCEPT ![p] = ""]
    /\ UNCHANGED <<wpVars, schVars, extVars, now, pools, cancelled, poolClosed,
                   cleanupLoop, crashed, parked, calls, sweepClosed>>

\* createDirectConnection
createDirectConnection(p) ==
    /\ ~crashed
    /\ pc[p] = "direct"
    /\ \/ /\ held' = [held EXCEPT ![p] = [host |-> tgt[p], createdAt |-> now,
                                          lastUsed |-> now, useCount |-> 1, pool |-> NoPool]]
          /\ res' = [res EXCEPT ![p] = "direct"]
       \/ /\ res' = [res EXCEPT ![p] = "err_dial"]
          /\ UNCHANGED held
    /\ pc' = [pc EXCEPT ![p] = "idle"]
    /\ tgt' = [tgt EXCEPT ![p] = ""]
    /\ UNCHANGED <<wpVars, schVars, extVars, now, pools, hps, globalConnCount,
                   cancelled, poolClosed, cleanupLoop, crashed, hp, parked, calls,
                   sweepClosed>>

\* ReturnConnection
ReturnConnection(p) ==
    /\ ~crashed
    /\ pc[p] = "idle"
    /\ held[p] # NoConn
    /\ held' = [held EXCEPT ![p] = NoConn]
    /\ LET c == held[p]
       IN IF c.pool = NoPool
          \* conn.pool == nil: return at once
          THEN /\ res' = [res EXCEPT ![p] = "ret_nopool"]
               /\ UNCHANGED <<hps, crashed>>
          ELSE IF ~isConnectionValid(c, now)
          THEN /\ hps' = Collect(hps, pools, hp, held')
               /\ res' = [res EXCEPT ![p] = "ret_invalid"]
               /\ UNCHANGED crashed
          ELSE IF hps[c.pool].closed
          \* send on a closed channel panics
          THEN /\ crashed' = TRUE
               /\ UNCHANGED <<hps, res>>
          ELSE IF ~HostPoolFull(hps[c.pool])
          THEN /\ hps' = [hps EXCEPT ![c.pool].connections =
                              Append(@, [c EXCEPT !.lastUsed = now])]
               /\ res' = [res EXCEPT ![p] = "ret_pushed"]
               /\ UNCHANGED crashed
          ELSE /\ hps' = Collect(hps, pools, hp, held')
               /\ res' = [res EXCEPT ![p] = "ret_full"]
               /\ UNCHANGED crashed
    /\ UNCHANGED <<wpVars, schVars, extVars, now, pools, globalConnCount, cancelled,
                   poolClosed, cleanupLoop, pc, tgt, hp, parked, calls, sweepClosed>>

\* A caller keeps its pooled connection checked out for the rest of the run.
Park(p) ==
    /\ ~crashed
    /\ pc[p] = "idle"
    /\ held[p] # NoConn
    /\ held[p].pool # NoPool
    /\ parked' = parked + 1
    /\ held' = [held EXCEPT ![p] = NoConn]
    /\ hps' = Collect(hps, pools, hp, held')
    /\ UNCHANGED <<wpVars, schVars, extVars, now, pools, globalConnCount, cancelled,
                   poolClosed, cleanupLoop, crashed, pc, tgt, hp, res, calls,
                   sweepClosed>>

\* cleanupHostPool: the connections of a host pool that the sweep keeps.
KeptBySweep(h) ==
    SelectSeq(h.connections, LAMBDA c : c.lastUsed > now - KeepAlive /\ isConnectionValid(c, now))

\* cleanup: a host pool not used since the cutoff is evicted.
PoolExpired(h) == h.lastUsed < now - KeepAlive * 2

\* cleanup, run by cleanupRoutine on a tick of its ticker. A tick that races
\* with the cancellation may still be served once; the loop then exits.
cleanup ==
    /\ ~crashed
    /\ cleanupLoop = "wait"
    /\ cleanupLoop' = IF cancelled THEN "exited" ELSE "wait"
    /\ pools' = [t \in Targets |->
                    IF pools[t] # NoPool /\ PoolExpired(hps[pools[t]]) THEN NoPool ELSE pools[t]]
    /\ LET swept == [i \in HpIds |->
                        IF \E t \in Targets : pools[t] = i
                        THEN IF PoolExpired(hps[i])
                             THEN [hps[i] EXCEPT !.connections = <<>>, !.closed = TRUE]
                             ELSE [hps[i] EXCEPT !.connections = KeptBySweep(hps[i])]
                        ELSE hps[i]]
       IN hps' = Collect(swept, pools', hp, held)
    /\ UNCHANGED <<wpVars, schVars, extVars, now, globalConnCount, cancelled,
                   poolClosed, crashed, pc, tgt, hp, held, res, parked, calls>>

\* cleanupRoutine leaves its loop on ctx.Done.
cleanupRoutineExit ==
    /\ ~crashed
    /\ cleanupLoop = "wait"
    /\ cancelled
    /\ cleanupLoop' = "exited"
    /\ UNCHANGED <<wpVars, schVars, extVars, now, pools, hps, globalConnCount,
                   cancelled, poolClosed, crashed, pc, tgt, hp, held, res, parked,
                   calls, sweepClosed>>

\* ConnectionPool.Close
Close ==
    /\ ~crashed
    /\ ~poolClosed
    /\ cancelled' = TRUE
    /\ pools' = [t \in Targets |-> NoPool]
    /\ LET shut == [i \in HpIds |->
                       IF \E t \in Targets : pools[t] = i
                       THEN [hps[i] EXCEPT !.connections = <<>>, !.closed = TRUE]
                       ELSE hps[i]]
       IN hps' = Collect(shut, pools', hp, held)
    /\ poolClosed' = TRUE
    /\ UNCHANGED <<wpVars, schVars, extVars, now, globalConnCount, cleanupLoop, crashed,
                   pc, tgt, hp, held, res, parked, calls, sweepClosed>>

\* Number of connections idle in the host pools h.
IdleCount(h) == LET n[i \in 0..Cardinality(HpIds)] ==
                        IF i = 0 THEN 0 ELSE n[i - 1] + Len(h[i].connections)
                IN n[Cardinality(HpIds)]

\* ---- the concurrent scenario: two callers, two targets ----
Call(p, t) ==
    /\ calls < MaxCalls
    /\ GetConnection(p, t)
    /\ calls' = calls + 1
    /\ UNCHANGED sweepClosed

\* ConnectionPoolSize - 1 other callers have each obtained a new connection to
\* SeqTarget and keep it checked out: that many runs of GetConnection
\* (lookup, empty pool, limit check, dial), taken as one step.
Burst ==
    /\ ~crashed
    /\ globalConnCount = 0
    /\ parked = 0
    /\ \A p \in Procs : pc[p] = "idle" /\ held[p] = NoConn
    /\ pools[SeqTarget] # NoPool
    /\ hps[pools[SeqTarget]].connections = <<>>
    /\ globalConnCount' = ConnectionPoolSize - 1
    /\ parked' = ConnectionPoolSize - 1
    /\ hps' = [hps EXCEPT ![pools[SeqTarget]].lastUsed = now]
    /\ UNCHANGED <<wpVars, schVars, extVars, now, pools, cancelled, poolClosed,
                   cleanupLoop, crashed, pc, tgt, hp, held, res, calls, sweepClosed>>

Sweep ==
    /\ cleanup
    /\ UNCHANGED sweepClosed

TickCP == Tick(MaxTime)

NextCP ==
    \/ TickCP
    \/ \E p \in Procs, t \in Targets : Call(p, t)
    \/ Burst
    \/ \E p \in Procs : getOrCreateHostPool(p)
    \/ \E p \in Procs : PopConnection(p)
    \/ \E p \in Procs : createPooledConnectionCheck(p)
    \/ \E p \in Procs : createPooledConnectionDial(p)
    \/ \E p \in Procs : createDirectConnection(p)
    \/ \E p \in Procs : ReturnConnection(p)
    \/ \E p \in Procs : Park(p)
    \/ Sweep
    \/ cleanupRoutineExit
    \/ Close

\* ---- the sequential scenario: one caller cycling on one target ----
CallSeq ==
    /\ GetConnection(SeqCaller, SeqTarget)
    /\ calls' = Min(calls + 1, CallsCap)
    /\ UNCHANGED sweepClosed

SweepSeq ==
    /\ cleanup
    /\ sweepClosed' = (sweepClosed \/ IdleCount(hps') < IdleCount(hps))

\* The clock of the sequential scenario starts with its first call.
TickSeq == calls > 0 /\ Tick(MaxTimeSeq)

NextSeq ==
    \/ TickSeq
    \/ CallSeq
    \/ getOrCreateHostPool(SeqCaller)
    \/ PopConnection(SeqCaller)
    \/ createPooledConnectionCheck(SeqCaller)
    \/ createPooledConnectionDial(SeqCaller)
    \/ ReturnConnection(SeqCaller)
    \/ SweepSeq

(***************************************************************************)
(*                             WorkerPool                                  *)
(***************************************************************************)

\* HighPerformanceConfig values the pool may be built with: MaxWorkers of the
\* three configurations, and MinWorkers and WorkerScaleStep of the largest.
SmallMaxWorkers == 1
MidMaxWorkers == 2
BigMaxWorkers == 4
BigScaleStep == 2
SmallConfig == [MaxWorkers |-> SmallMaxWorkers, MinWorkers |-> 1, WorkerScaleStep |-> 1]
MidConfig == [MaxWorkers |-> MidMaxWorkers, MinWorkers |-> 1, WorkerScaleStep |-> 1]
BigConfig == [MaxWorkers |-> BigMaxWorkers, MinWorkers |-> 1, WorkerScaleStep |-> BigScaleStep]
\* Configurations of the task-flow scenario and of the scaling scenario.
TaskConfigs == {SmallConfig, MidConfig}
ScaleConfigs == {SmallConfig, MidConfig, BigConfig}

\* Tasks submitted in a run, and results the handler takes in a run.
MaxTasks == 3
MaxProcessed == 4
\* Changes of the monitor's recommendation in a run (task-flow, scaling scenario).
MaxChanges == 1
MaxChangesScale == 2
\* Zero Tasks the executors receive from the closed queue in a run.
MaxZero == 1
\* Executors that may exist at once (registered ones and stopped ones still busy).
Slots == 1..BigMaxWorkers
Subs == {1}
\* The ghost tick counter stops counting here.
TickCap == wcfg.MaxWorkers

\* NewWorkerPool: capacity of taskChan and of resultChan.
QueueCap == wcfg.MaxWorkers * 2

\* Task.Type of the task with this id; 0 is the zero Task a closed queue yields.
KindOf(t) == CASE t = 1 -> "PORT" [] t = 2 -> "XYZ" [] t = 3 -> "DNS" [] t = 0 -> "" [] OTHER -> "REVERSE"

\* SystemMonitor.GetOptimalWorkerCount: the values it can return.
OptimalValues == {wcfg.MinWorkers, wcfg.MaxWorkers \div 2, wcfg.MaxWorkers}

InitWP(configs) ==
    /\ wcfg \in configs
    /\ optimal \in OptimalValues
    /\ workers = <<>>
    /\ wstate = [w \in Slots |-> "none"]
    /\ wtask = [w \in Slots |-> 0]
    /\ wquit = [w \in Slots |-> FALSE]
    /\ activeCount = 0
    /\ wgCount = 0
    /\ taskChan = <<>>
    /\ taskClosed = FALSE
    /\ resultChan = <<>>
    /\ wpCancelled = FALSE
    /\ started = FALSE
    /\ stopPc = "none"
    /\ mgrPc = "off"
    /\ handlerPc = "off"
    /\ subPc = [s \in Subs |-> "idle"]
    /\ subTask = [s \in Subs |-> 0]
    /\ subFull = [s \in Subs |-> FALSE]
    /\ nextTask = 1
    /\ accepted = {}
    /\ processedCount = 0
    /\ errorCount = 0
    /\ c0 = 0
    /\ ticks = 0
    /\ changes = 0
    /\ zeroTaken = 0
    /\ wpCrashed = FALSE

FreeSlots == {w \in Slots : wstate[w] = "none"}
FirstK(S, k) == {w \in S : Cardinality({v \in S : v < w}) < k}
Ascending(S) == [i \in 1..Cardinality(S) |-> CHOOSE w \in S : Cardinality({v \in S : v < w}) = i - 1]

\* scaleWorkers(count): the state of the executors after it.
\* (wstate, workers, wgCount, activeCount are set by the caller through these.)
ScaledUpState(k) == [w \in Slots |-> IF w \in FirstK(FreeSlots, k) THEN "idle" ELSE wstate[w]]
ScaledUpWorkers(k) == workers \o Ascending(FirstK(FreeSlots, k))

\* WorkerPool.Start
Start ==
    /\ ~wpCrashed
    /\ ~started
    /\ stopPc = "none"
    /\ started' = TRUE
    /\ wstate' = ScaledUpState(wcfg.MinWorkers)
    /\ workers' = ScaledUpWorkers(wcfg.MinWorkers)
    /\ wgCount' = wgCount + wcfg.MinWorkers
    /\ activeCount' = activeCount + wcfg.MinWorkers
    /\ mgrPc' = "wait"
    /\ handlerPc' = "run"
    /\ c0' = activeCount'
    /\ ticks' = 0
    /\ UNCHANGED <<cpVars, schVars, extVars, wcfg, optimal, wtask, wquit, taskChan,
                   taskClosed, resultChan, wpCancelled, stopPc, subPc, subTask, subFull,
                   nextTask, accepted, processedCount, errorCount, changes, zeroTaken,
                   wpCrashed>>

\* The monitor's metrics change and with them its recommendation.
MonitorChange(limit) ==
    /\ ~wpCrashed
    /\ changes < limit
    /\ changes' = changes + 1
    /\ \E v \in OptimalValues \ {optimal} : optimal' = v
    /\ c0' = activeCount
    /\ ticks' = 0
    /\ UNCHANGED <<cpVars, schVars, extVars, wcfg, workers, wstate, wtask, wquit,
                   activeCount, wgCount, taskChan, taskClosed, resultChan, wpCancelled,
                   started, stopPc, mgrPc, handlerPc, subPc, subTask, subFull, nextTask,
                   accepted, processedCount, errorCount, zeroTaken, wpCrashed>>

\* SubmitTask is called.
SubmitTask(s) ==
    /\ ~wpCrashed
    /\ subPc[s] = "idle"
    /\ nextTask <= MaxTasks
    /\ subPc' = [subPc EXCEPT ![s] = "sending"]
    /\ subTask' = [subTask EXCEPT ![s] = nextTask]
    /\ subFull' = [subFull EXCEPT ![s] = (Len(taskChan) >= QueueCap)]
    /\ nextTask' = nextTask + 1
    /\ UNCHANGED <<cpVars, schVars, extVars, wcfg, optimal, workers, wstate, wtask,
                   wquit, activeCount, wgCount, taskChan, taskClosed, resultChan,
                   wpCancelled, started, stopPc, mgrPc, handlerPc, accepted,
                   processedCount, errorCount, c0, ticks, changes, zeroTaken,
                   wpCrashed>>

MayReturnUnsentAlways == TRUE

\* SubmitTask: the case <-wp.ctx.Done() of its select is ready.
MayReturnUnsent == wpCancelled

\* SubmitTask's select: send, give up on ctx.Done, or panic on the closed queue.
SubmitTaskSelect(s) ==
    /\ ~wpCrashed
    /\ subPc[s] = "sending"
    /\ \/ /\ ~taskClosed
          /\ Len(taskChan) < QueueCap
          /\ taskChan' = Append(taskChan, subTask[s])
          /\ accepted' = accepted \cup {subTask[s]}
          /\ subPc' = [subPc EXCEPT ![s] = "idle"]
          /\ UNCHANGED wpCrashed
       \/ /\ MayReturnUnsent
          /\ subPc' = [subPc EXCEPT ![s] = "idle"]
          /\ UNCHANGED <<taskChan, accepted, wpCrashed>>
       \/ /\ taskClosed
          /\ wpCrashed' = TRUE
          /\ UNCHANGED <<taskChan, accepted, subPc>>
    /\ UNCHANGED <<cpVars, schVars, extVars, wcfg, optimal, workers, wstate, wtask,
                   wquit, activeCount, wgCount, taskClosed, resultChan, wpCancelled,
                   started, stopPc, mgrPc, handlerPc, subTask, subFull, nextTask,
                   processedCount, errorCount, c0, ticks, changes, zeroTaken>>

\* scaleManager's select takes the ticker case.
scaleManagerTick ==
    /\ ~wpCrashed
    /\ mgrPc = "wait"
    /\ mgrPc' = "adjust"
    /\ UNCHANGED <<cpVars, schVars, extVars, wcfg, optimal, workers, wstate, wtask,
                   wquit, activeCount, wgCount, taskChan, taskClosed, resultChan,
                   wpCancelled, started, stopPc, handlerPc, subPc, subTask, subFull,
                   nextTask, accepted, processedCount, errorCount, c0, ticks, changes,
                   zeroTaken, wpCrashed>>

\* scaleManager's select takes the ctx.Done case.
scaleManagerExit ==
    /\ ~wpCrashed
    /\ mgrPc = "wait"
    /\ wpCancelled
    /\ mgrPc' = "exited"
    /\ UNCHANGED <<cpVars, schVars, extVars, wcfg, optimal, workers, wstate, wtask,
                   wquit, activeCount, wgCount, taskChan, taskClosed, resultChan,
                   wpCancelled, started, stopPc, handlerPc, subPc, subTask, subFull,
                   nextTask, accepted, processedCount, errorCount, c0, ticks, changes,
                   zeroTaken, wpCrashed>>

StepLimitedNoClamp(n) == n

\* adjustWorkerCount: a difference above WorkerScaleStep is cut down to it.
StepLimited(n) == IF n > wcfg.WorkerScaleStep THEN wcfg.WorkerScaleStep ELSE n

\* scaleDownWorkers: atomic.AddInt32(&wp.activeCount, -1) once for each of
\* the count workers it removes.
ActiveAfterRemovingOnce(count) == activeCount - 1
ActiveAfterRemoving(count) == activeCount - count

\* adjustWorkerCount, with scaleWorkers / scaleDownWorkers.
adjustWorkerCount ==
    /\ ~wpCrashed
    /\ mgrPc = "adjust"
    /\ mgrPc' = "wait"
    /\ ticks' = Min(ticks + 1, TickCap)
    /\ LET optimalCount == optimal
           currentCount == activeCount
       IN IF optimalCount > currentCount
          THEN LET toAdd == StepLimited(optimalCount - currentCount)
               IN /\ Cardinality(FreeSlots) >= toAdd
                  /\ wstate' = ScaledUpState(toAdd)
                  /\ workers' = ScaledUpWorkers(toAdd)
                  /\ wgCount' = wgCount + toAdd
                  /\ activeCount' = activeCount + toAdd
                  /\ UNCHANGED wquit
          ELSE IF optimalCount < currentCount
          THEN LET toRemove == StepLimited(currentCount - optimalCount)
                   count == Min(toRemove, Len(workers))
                   gone == {workers[i] : i \in (Len(workers) - count + 1)..Len(workers)}
               IN /\ workers' = SubSeq(workers, 1, Len(workers) - count)
                  /\ wquit' = [w \in Slots |-> wquit[w] \/ w \in gone]
                  /\ activeCount' = ActiveAfterRemoving(count)
                  /\ UNCHANGED <<wstate, wgCount>>
          ELSE UNCHANGED <<workers, wstate, wquit, wgCount, activeCount>>
    /\ UNCHANGED <<cpVars, schVars, extVars, wcfg, optimal, wtask, taskChan, taskClosed,
                   resultChan, wpCancelled, started, stopPc, handlerPc, subPc, subTask,
                   subFull, nextTask, accepted, processedCount, errorCount, c0, changes,
                   zeroTaken, wpCrashed>>

\* Worker.start: the select receives a task (the zero Task once the queue is
\* closed and drained).
WorkerReceive(w) ==
    /\ ~wpCrashed
    /\ wstate[w] = "idle"
    /\ \/ /\ taskChan # <<>>
          /\ wtask' = [wtask EXCEPT ![w] = Head(taskChan)]
          /\ taskChan' = Tail(taskChan)
          /\ UNCHANGED zeroTaken
       \/ /\ taskChan = <<>>
          /\ taskClosed
          /\ zeroTaken < MaxZero
          /\ zeroTaken' = zeroTaken + 1
          /\ wtask' = [wtask EXCEPT ![w] = 0]
          /\ UNCHANGED taskChan
    /\ wstate' = [wstate EXCEPT ![w] = "busy"]
    /\ UNCHANGED <<cpVars, schVars, extVars, wcfg, optimal, workers, wquit, activeCount,
                   wgCount, taskClosed, resultChan, wpCancelled, started, stopPc, mgrPc,
                   handlerPc, subPc, subTask, subFull, nextTask, accepted,
                   processedCount, errorCount, c0, ticks, changes, wpCrashed>>

\* Worker.start: the select takes <-w.quit or <-w.pool.ctx.Done(); wg.Done runs.
WorkerExit(w) ==
    /\ ~wpCrashed
    /\ wstate[w] = "idle"
    /\ wquit[w] \/ wpCancelled
    /\ wstate' = [wstate EXCEPT ![w] = "none"]
    /\ wquit' = [wquit EXCEPT ![w] = FALSE]
    /\ wgCount' = wgCount - 1
    /\ UNCHANGED <<cpVars, schVars, extVars, wcfg, optimal, workers, wtask, activeCount,
                   taskChan, taskClosed, resultChan, wpCancelled, started, stopPc,
                   mgrPc, handlerPc, subPc, subTask, subFull, nextTask, accepted,
                   processedCount, errorCount, c0, ticks, changes, zeroTaken,
                   wpCrashed>>

\* processTask: the task types its switch knows.
KnownTypes == {"DNS", "PORT", "REVERSE"}

\* processTask: the outcome by task type; a DNS task succeeds or fails with
\* the resolver, a task of no known type fails.
TaskOutcomesAllSucceed(t) == {TRUE}
TaskOutcomes(t) ==
    IF KindOf(t) = "DNS" THEN {TRUE, FALSE}
    ELSE IF KindOf(t) \in {"PORT", "REVERSE"} THEN {TRUE}
    ELSE {FALSE}

ResultOfNoTask(w, t, ok) ==
    [TaskID |-> 0, Success |-> ok, Error |-> IF ok THEN "nil" ELSE "resolver error",
     Worker |-> w]

\* processTask: the Result executor w builds for task t with outcome ok.
ResultOf(w, t, ok) ==
    [TaskID |-> t,
     Success |-> ok,
     Error |-> IF ok THEN "nil"
               ELSE IF KindOf(t) \in KnownTypes THEN "resolver error"
               ELSE "unknown task type",
     Worker |-> w]

\* Worker.processTask: the work, then the select that publishes the result or
\* gives up on ctx.Done.
processTask(w) ==
    /\ ~wpCrashed
    /\ wstate[w] = "busy"
    /\ \/ /\ Len(resultChan) < QueueCap
          /\ \E ok \in TaskOutcomes(wtask[w]) :
                resultChan' = Append(resultChan, ResultOf(w, wtask[w], ok))
       \/ /\ wpCancelled
          /\ UNCHANGED resultChan
    /\ wstate' = [wstate EXCEPT ![w] = "idle"]
    /\ wtask' = [wtask EXCEPT ![w] = 0]
    /\ UNCHANGED <<cpVars, schVars, extVars, wcfg, optimal, workers, wquit, activeCount,
                   wgCount, taskChan, taskClosed, wpCancelled, started, stopPc, mgrPc,
                   handlerPc, subPc, subTask, subFull, nextTask, accepted,
                   processedCount, errorCount, c0, ticks, changes, zeroTaken,
                   wpCrashed>>

\* resultHandler receives a result; handleResult counts it, counts it as an
\* error if it failed, and hands the error rate, in percent, to
\* SystemMonitor.UpdateStats.
handleResult ==
    /\ ~wpCrashed
    /\ handlerPc = "run"
    /\ resultChan # <<>>
    /\ processedCount < MaxProcessed
    /\ resultChan' = Tail(resultChan)
    /\ processedCount' = processedCount + 1
    /\ errorCount' = IF Head(resultChan).Success THEN errorCount ELSE errorCount + 1
    /\ smMetrics' = [smMetrics EXCEPT !.ErrorRate = (errorCount' * 100) \div processedCount']
    /\ UNCHANGED <<cpVars, extVars, wcfg, optimal, workers, wstate, wtask, wquit,
                   activeCount, wgCount, taskChan, taskClosed, wpCancelled, started,
                   stopPc, mgrPc, handlerPc, subPc, subTask, subFull, nextTask,
                   accepted, c0, ticks, changes, zeroTaken, wpCrashed, scfg, clock,
                   memPercent, temperature, errorRate, throttleLevel, currentMode,
                   health, lastBase, lastDelay, throttled, profile, profileAt>>

\* resultHandler's select takes the ctx.Done case.
resultHandlerExit ==
    /\ ~wpCrashed
    /\ handlerPc = "run"
    /\ wpCancelled
    /\ handlerPc' = "exited"
    /\ UNCHANGED <<cpVars, schVars, extVars, wcfg, optimal, workers, wstate, wtask,
                   wquit, activeCount, wgCount, taskChan, taskClosed, resultChan,
                   wpCancelled, started, stopPc, mgrPc, subPc, subTask, subFull,
                   nextTask, accepted, processedCount, errorCount, c0, ticks, changes,
                   zeroTaken, wpCrashed>>

\* WorkerPool.Stop: wp.cancel()
StopCancel ==
    /\ ~wpCrashed
    /\ started
    /\ stopPc = "none"
    /\ stopPc' = "cancelled"
    /\ wpCancelled' = TRUE
    /\ UNCHANGED <<cpVars, schVars, extVars, wcfg, optimal, workers, wstate, wtask,
                   wquit, activeCount, wgCount, taskChan, taskClosed, resultChan,
                   started, mgrPc, handlerPc, subPc, subTask, subFull, nextTask,
                   accepted, processedCount, errorCount, c0, ticks, changes, zeroTaken,
                   wpCrashed>>

\* WorkerPool.Stop: close(wp.taskChan)
StopCloseQueue ==
    /\ ~wpCrashed
    /\ stopPc = "cancelled"
    /\ stopPc' = "waiting"
    /\ taskClosed' = TRUE
    /\ UNCHANGED <<cpVars, schVars, extVars, wcfg, optimal, workers, wstate, wtask,
                   wquit, activeCount, wgCount, taskChan, resultChan, wpCancelled,
                   started, mgrPc, handlerPc, subPc, subTask, subFull, nextTask,
                   accepted, processedCount, errorCount, c0, ticks, changes, zeroTaken,
                   wpCrashed>>

\* WorkerPool.Stop: wp.wg.Wait() returns, and Stop with it.
StopWait ==
    /\ ~wpCrashed
    /\ stopPc = "waiting"
    /\ wgCount = 0
    /\ stopPc' = "returned"
    /\ UNCHANGED <<cpVars, schVars, extVars, wcfg, optimal, workers, wstate, wtask,
                   wquit, activeCount, wgCount, taskChan, taskClosed, resultChan,
                   wpCancelled, started, mgrPc, handlerPc, subPc, subTask, subFull,
                   nextTask, accepted, processedCount, errorCount, c0, ticks, changes,
                   zeroTaken, wpCrashed>>

MonitorChangeWP == MonitorChange(MaxChanges)

NextWP ==
    \/ Start
    \/ MonitorChangeWP
    \/ \E s \in Subs : SubmitTask(s)
    \/ \E s \in Subs : SubmitTaskSelect(s)
    \/ scaleManagerTick
    \/ scaleManagerExit
    \/ adjustWorkerCount
    \/ \E w \in Slots : WorkerReceive(w)
    \/ \E w \in Slots : WorkerExit(w)
    \/ \E w \in Slots : processTask(w)
    \/ handleResult
    \/ resultHandlerExit
    \/ StopCancel
    \/ StopCloseQueue
    \/ StopWait

(***************************************************************************)
(*                 Scheduler, Config and the monitors                      *)
(* Memory and error-rate fractions are kept in hundredths (0.85 is 85),    *)
(* temperatures in degrees Celsius, durations in microseconds.  An instant *)
(* is a calendar date and a time of day; a day has DayLen times of day, a  *)
(* month DaysPerMonth days, and the clock stops at the end of MaxMonth.    *)
(***************************************************************************)
DayLen == 4
DaysPerMonth == 2
MaxMonth == 2

Tods == 0..(DayLen - 1)

\* The readings the sensors deliver.
MemoryReadings == {50, 75, 85, 95}
Temperatures == {50, 65, 72, 82}
ErrorRates == {1, 3, 6}
\* The readings the SystemMonitor's tickers deliver: below, at and above each
\* of its thresholds.
MonitorTemperatures == {50, 70, 72, 75, 82}
MonitorMemory == {50, 75, 85, 90, 95}
\* The error rates, in percent, the worker pool reports to UpdateStats.
StatRates == {0, 50, 100}
\* The readings of the throttling scenario: one on each side of every
\* threshold of the scheduler.
SchedMemory == {50, 75, 85}
SchedTemperatures == {50, 65, 82}
\* The arguments GetAdaptiveDelay is called with: 1ms, 5ms, 10ms.
BaseDelays == {1000, 5000, 10000}

\* config.New: the RequestDelay of the three profiles.
Profiles ==
    [Conservation |-> [RequestDelay |-> 100000],
     FullPower |-> [RequestDelay |-> 5000],
     HighPerformance |-> [RequestDelay |-> 1000]]

\* A Config: the two high-performance switches, the two windows and the
\* thermal limit config.New sets.
MakeConfig(hpMode, schedEnabled, hpStart, hpEnd, fpStart, fpEnd) ==
    [EnableHighPerformanceMode |-> hpMode,
     HighPerformanceSchedule |-> [Enabled |-> schedEnabled, Start |-> hpStart, End |-> hpEnd],
     FullPowerStart |-> fpStart,
     FullPowerEnd |-> fpEnd,
     ThermalThrottleTemp |-> 70]

\* The configurations of the throttling scenario: high-performance mode on
\* with its schedule, and off; the night window crosses midnight.
ThrottleConfigs ==
    {MakeConfig(TRUE, TRUE, 0, 2, DayLen - 1, 1),
     MakeConfig(FALSE, FALSE, 0, 2, DayLen - 1, 1)}

\* config.New: the default high-performance schedule, 0:00 to 23:59; the
\* last time of day of the calendar stands for the day's final minute.
DefaultHighPerformanceSchedule == [Start |-> 0, End |-> DayLen - 1]

\* The configurations of the window scenario: every night window, and the
\* high-performance mode off, on without a schedule, on with any schedule,
\* the default one included.
WindowConfigs ==
    {MakeConfig(h, e, hs, he, fs, fe) :
        h \in BOOLEAN, e \in BOOLEAN, hs \in {0, DayLen - 1},
        he \in {1, 2, DefaultHighPerformanceSchedule.End},
        fs \in Tods, fe \in Tods}

\* Scheduler.New: the alert thresholds, from the Config defaults.
alertThresholds ==
    [HighMemoryUsage |-> 70, CriticalMemoryUsage |-> 80,
     HighTemperature |-> 60, CriticalTemperature |-> 70,
     HighErrorRate |-> 2, CriticalErrorRate |-> 5]

\* The thresholds of the HealthMonitor's Config.
healthThresholds ==
    [MemoryThrottleThreshold |-> 80, ThermalThrottleThreshold |-> 75,
     ErrorRateThreshold |-> 5]

\* config.DefaultHighPerformanceConfig, as far as the SystemMonitor reads it.
DefaultHighPerformanceConfig ==
    [MaxWorkers |-> 800, MinWorkers |-> 50, WorkerScaleStep |-> 25,
     MaxCPUTemp |-> 75, ThrottleTemp |-> 70]

\* The Config of a run that never consults the scheduler.
DefaultSchedule == MakeConfig(FALSE, FALSE, 0, 2, DayLen - 1, 1)

\* ---- time ----
\* time.Date(now.Year(), now.Month(), now.Day(), hour, minute, 0, 0, location)
Date(t, tod) == [month |-> t.month, day |-> t.day, tod |-> tod]

\* Time.Before and Time.After: strict comparison of instants.
Before(a, b) ==
    \/ a.month < b.month
    \/ a.month = b.month /\ a.day < b.day
    \/ a.month = b.month /\ a.day = b.day /\ a.tod < b.tod
After(a, b) == Before(b, a)

\* Time.AddDate(0, 0, days) for days 1 and -1, normalising over the month end.
AddDate(t, days) ==
    IF days > 0
    THEN IF t.day = DaysPerMonth
         THEN [t EXCEPT !.month = @ + 1, !.day = 1]
         ELSE [t EXCEPT !.day = @ + 1]
    ELSE IF t.day = 1
         THEN [t EXCEPT !.month = @ - 1, !.day = DaysPerMonth]
         ELSE [t EXCEPT !.day = @ - 1]

\* The branch "current time is after start time, so end time is tomorrow".
EndIsTomorrowAlways(t, startTime) == TRUE
EndIsTomorrow(t, startTime) == After(t, startTime)

\* The window test IsFullPowerTime and IsHighPerformanceTime share.
InWindow(t, start, end) ==
    LET startTime == Date(t, start)
        endTime == Date(t, end)
        crosses == Before(endTime, startTime)
        s2 == IF crosses /\ ~EndIsTomorrow(t, startTime)
              THEN AddDate(startTime, -1) ELSE startTime
        e2 == IF crosses /\ EndIsTomorrow(t, startTime)
              THEN AddDate(endTime, 1) ELSE endTime
    IN After(t, s2) /\ Before(t, e2)

IsFullPowerTime == InWindow(clock, scfg.FullPowerStart, scfg.FullPowerEnd)

IsHighPerformanceTime ==
    /\ scfg.HighPerformanceSchedule.Enabled
    /\ InWindow(clock, scfg.HighPerformanceSchedule.Start, scfg.HighPerformanceSchedule.End)

\* Config.GetCurrentProfile: the name of the profile it returns.
GetCurrentProfile ==
    IF scfg.EnableHighPerformanceMode /\ IsHighPerformanceTime THEN "HighPerformance"
    ELSE IF IsFullPowerTime THEN "FullPower"
    ELSE "Conservation"

\* The mode Scheduler.updateCurrentMode computes.
ModeNow ==
    IF scfg.EnableHighPerformanceMode /\ IsHighPerformanceTime THEN "HighPerformance"
    ELSE IF IsFullPowerTime THEN "FullPower"
    ELSE "Conservation"

\* ---- throttling ----
maxAsSum(a, b) == a + b
max(a, b) == IF a > b THEN a ELSE b

MemoryLevelLightOnly(m) ==
    IF m > alertThresholds.HighMemoryUsage THEN 25 ELSE 0
MemoryLevel(m) ==
    IF m > alertThresholds.CriticalMemoryUsage THEN 75
    ELSE IF m > alertThresholds.HighMemoryUsage THEN 25
    ELSE 0

TemperatureLevel(t) ==
    IF t > alertThresholds.CriticalTemperature THEN 90
    ELSE IF t > alertThresholds.HighTemperature THEN 50
    ELSE 0

ErrorRateLevel(e) ==
    IF e > alertThresholds.CriticalErrorRate THEN 60
    ELSE IF e > alertThresholds.HighErrorRate THEN 30
    ELSE 0

\* Scheduler.adjustThrottling: the level it stores.
newThrottleLevel(m, t, e) ==
    max(max(MemoryLevel(m), TemperatureLevel(t)), ErrorRateLevel(e))

GetThrottleLevel == throttleLevel

\* time.Duration(float64(d) * (1.0 + float64(level)/100.0)): the product,
\* truncated to a whole duration unit.
ThrottledDelayLevelOnly(d, level) == (d * level) \div 100
ThrottledDelay(d, level) == (d * (100 + level)) \div 100

\* Scheduler.GetAdaptiveDelay, with t the thermal-zone reading at the call.
AdaptiveDelay(baseDelay, t) ==
    LET requestDelay == Profiles[GetCurrentProfile].RequestDelay
    IN  IF currentMode # "FullPower" /\ currentMode # "HighPerformance"
        THEN requestDelay
        ELSE IF currentMode = "HighPerformance" /\ throttleLevel > 0
        THEN ThrottledDelay(requestDelay, throttleLevel)
        ELSE IF t > scfg.ThermalThrottleTemp - 5
        THEN requestDelay * 2
        ELSE requestDelay

\* HealthMonitor.ShouldThrottle
HealthMonitorShouldThrottle ==
    \/ health.MemoryUsage > healthThresholds.MemoryThrottleThreshold
    \/ health.CPUTemperature > healthThresholds.ThermalThrottleThreshold
    \/ health.ErrorRate > healthThresholds.ErrorRateThreshold

\* Scheduler.ShouldThrottle (package scheduler, scheduler.go)
ShouldThrottle == currentMode # "FullPower"

\* SystemMonitor.ShouldThrottle
SystemMonitorShouldThrottle ==
    \/ smMetrics.CPUTemp > wcfg.ThrottleTemp
    \/ smMetrics.MemoryPercent > 75

\* SystemMonitor.GetOptimalWorkerCount on the metrics m.
GetOptimalWorkerCountNoHalving(cfg, m) ==
    IF m.CPUTemp > cfg.ThrottleTemp \/ m.MemoryPercent > 75
    THEN cfg.MinWorkers
    ELSE cfg.MaxWorkers
GetOptimalWorkerCountAtOrAbove(cfg, m) ==
    IF m.CPUTemp >= cfg.MaxCPUTemp \/ m.MemoryPercent >= 90 THEN cfg.MinWorkers
    ELSE IF m.CPUTemp >= cfg.ThrottleTemp \/ m.MemoryPercent >= 75 THEN cfg.MaxWorkers \div 2
    ELSE cfg.MaxWorkers
GetOptimalWorkerCount(cfg, m) ==
    IF m.CPUTemp > cfg.MaxCPUTemp \/ m.MemoryPercent > 90 THEN cfg.MinWorkers
    ELSE IF m.CPUTemp > cfg.ThrottleTemp \/ m.MemoryPercent > 75 THEN cfg.MaxWorkers \div 2
    ELSE cfg.MaxWorkers

\* ---- batch sizing ----
\* The base batch sizes callers pass, and the readings of the batch scenario:
\* one in each band GetOptimalBatchSize distinguishes.
BatchBases == {-3, 0, 1, 100, 499, 500, 2000, 5000, 10000}
BatchMemory == {20, 50, 85}
BatchTemperatures == {40, 60, 82}

\* config.New of the Config the HealthMonitor reads: the batch settings of
\* the three profiles (a field the literal leaves out is false or 0).
BatchSettings ==
    [Conservation |-> [DynamicBatchSizing |-> FALSE, MinBatchSize |-> 0, MaxBatchSize |-> 0,
                       MemoryAwareBatching |-> FALSE, ThermalAwareBatching |-> FALSE],
     FullPower |-> [DynamicBatchSizing |-> FALSE, MinBatchSize |-> 0, MaxBatchSize |-> 0,
                    MemoryAwareBatching |-> FALSE, ThermalAwareBatching |-> FALSE],
     HighPerformance |-> [DynamicBatchSizing |-> TRUE, MinBatchSize |-> 500,
                          MaxBatchSize |-> 5000, MemoryAwareBatching |-> TRUE,
                          ThermalAwareBatching |-> TRUE]]

\* Config.GetCurrentProfile of that Config: EnableHighPerformance alone
\* selects the HighPerformance profile.
HealthConfigProfile ==
    IF scfg.EnableHighPerformanceMode THEN "HighPerformance"
    ELSE IF IsFullPowerTime THEN "FullPower"
    ELSE "Conservation"

\* int(float64(n) * tenths/10): the conversion truncates towards zero.
TruncDiv(n, d) == IF n >= 0 THEN n \div d ELSE -((-n) \div d)
Scaled(n, tenths) == TruncDiv(n * tenths, 10)

\* "Ensure within bounds": the two tests, in the order of the code.
ClampedBelowOnly(n, lo, hi) == IF n < lo THEN lo ELSE n
Clamped(n, lo, hi) ==
    LET a == IF n < lo THEN lo ELSE n
    IN IF a > hi THEN hi ELSE a

\* HealthMonitor.GetOptimalBatchSize on the snapshot h under the profile
\* settings p.
GetOptimalBatchSize(baseBatchSize, h, p) ==
    IF ~p.DynamicBatchSizing THEN baseBatchSize
    ELSE LET byMemory ==
                 IF ~p.MemoryAwareBatching THEN baseBatchSize
                 ELSE IF h.MemoryUsage > 70 THEN Scaled(baseBatchSize, 5)
                 ELSE IF h.MemoryUsage < 30 THEN Scaled(baseBatchSize, 15)
                 ELSE baseBatchSize
             byTemperature ==
                 IF ~p.ThermalAwareBatching THEN byMemory
                 ELSE IF h.CPUTemperature > 70 THEN Scaled(byMemory, 6)
                 ELSE IF h.CPUTemperature < 50 THEN Scaled(byMemory, 13)
                 ELSE byMemory
         IN Clamped(byTemperature, p.MinBatchSize, p.MaxBatchSize)

\* ---- outcome counters ----
\* calculateErrorRate: the request count above which both counters are halved.
OverflowGuard == 10000
\* Outcomes recorded by one batch of work between two samples.
BurstSize == 5000
\* Outcomes are recorded one at a time up to this total, in bursts up to that.
MaxSingles == 2
MaxRecorded == 10001

\* updateSystemMetrics: the quotient, in hundredths.
ErrorsOverSuccesses(c) ==
    IF c.SuccessCount > 0 THEN (c.ErrorCount * 100) \div c.SuccessCount ELSE 100
ErrorsOverTotal(c) == (c.ErrorCount * 100) \div (c.SuccessCount + c.ErrorCount)

\* updateSystemMetrics: the error rate after the sample; it is left as it was
\* while nothing has been recorded.
SampledErrorRate ==
    IF metricCounts.SuccessCount + metricCounts.ErrorCount > 0
    THEN ErrorsOverTotal(metricCounts)
    ELSE errorRate

\* HealthMonitor.calculateErrorRate: the rate it returns, in hundredths, and
\* the counters it leaves.
calculateErrorRate ==
    IF hmCounts.requestCount = 0 THEN 0
    ELSE (hmCounts.errorCount * 100) \div hmCounts.requestCount
CountsAfterRate(c) ==
    IF c.requestCount > OverflowGuard
    THEN [errorCount |-> c.errorCount \div 2, requestCount |-> c.requestCount \div 2]
    ELSE c

\* ---- alerts ----
\* NewHealthMonitor: the capacity of alertChan; processAlert: the number of
\* alerts health.Alerts keeps.
AlertChanCap == 100
AlertsKept == 100

\* The readings of the alert scenario.
AlertMemory == {50, 97}
AlertTemperatures == {82}

\* checkAlerts: the alerts a snapshot calls for, in the order it sends them
\* (a critical or a warning alert per signal, never both).
AlertsDue(h) ==
    (IF h.MemoryUsage > 95 \/ h.MemoryUsage > healthThresholds.MemoryThrottleThreshold
     THEN <<"memory">> ELSE <<>>)
    \o (IF h.CPUTemperature > 80
            \/ h.CPUTemperature > healthThresholds.ThermalThrottleThreshold
        THEN <<"thermal">> ELSE <<>>)
    \o (IF h.ErrorRate > 20 \/ h.ErrorRate > healthThresholds.ErrorRateThreshold
        THEN <<"error">> ELSE <<>>)

\* sendAlert: its select has a default case, so it proceeds whatever the
\* channel holds.
SendProceedsWhenRoom(n) == n < AlertChanCap
SendProceeds(n) == TRUE

\* ---- scanner batches ----
\* Batches in a phase, units of work (domains, IPs) in a batch, and
\* profile.WorkerCount, the capacity of a batch's semaphore.
BatchCount == 2
BatchSize == 2
WorkerCount == 1
ScanBatches == 1..BatchCount
BatchUnits == 1..BatchSize

\* wg.Wait() returns once the counter is zero.
WaitReturnsAtOnce(n) == TRUE
WaitReturns(n) == n = 0

\* ---- processDomains ----
\* The longest domain list, and the SubmitTask calls counted per domain.
MaxDomains == 5
SubmitCap == 2
DomainIndexes == 0..(MaxDomains - 1)
\* cfg.BatchSize and cfg.MinBatchSize, the latter never the larger one
\* (the defaults are 1000 and 100).
PdConfigs ==
    {[BatchSize |-> 2, MinBatchSize |-> 1],
     [BatchSize |-> 2, MinBatchSize |-> 2],
     [BatchSize |-> 3, MinBatchSize |-> 1]}

\* processDomains: totalBatches, computed once from cfg.BatchSize.
totalBatches == (domainCount + pdConfig.BatchSize - 1) \div pdConfig.BatchSize

\* NewHealthMonitor and the scanner before anything ran.
\* Targets and callers of the directory scenario, the pools the directory
\* may hold (maxPools) and the connections a host pool buffers (maxConnPerPool).
SweepTargets == 1..3
Getters == {"caller1", "caller2"}
SweepMaxPools == 2
SweepConns == 2

InitExt ==
    /\ batch = [base |-> 0, size |-> 0, profile |-> "none", via |-> "none"]
    /\ metricCounts = [SuccessCount |-> 0, ErrorCount |-> 0]
    /\ hmCounts = [errorCount |-> 0, requestCount |-> 0]
    /\ alertChan = 0
    /\ alerts = 0
    /\ hmMutex = "free"
    /\ samplerPc = "off"
    /\ pending = <<>>
    /\ alertPc = "off"
    /\ lastSend = "none"
    /\ hmCancelled = FALSE
    /\ scanPc = "idle"
    /\ semCap = WorkerCount
    /\ batchIndex = 1
    /\ units = [b \in ScanBatches |-> [u \in BatchUnits |-> "none"]]
    /\ scanWg = 0
    /\ scanSem = 0
    /\ checkpoint = 0
    /\ scannerPc = "new"
    /\ schCancelled = FALSE
    /\ runPc = "off"
    /\ monitorPc = IF scfg.EnableHighPerformanceMode THEN "wait" ELSE "off"
    /\ healthLoopPc = "off"
    /\ pdConfig = [BatchSize |-> 0, MinBatchSize |-> 0]
    /\ domainCount = 0
    /\ pdPc = "idle"
    /\ pdI = 0
    /\ batchSize = 0
    /\ batchStart = 0
    /\ batchEnd = 0
    /\ pdJ = 0
    /\ submitted = [d \in DomainIndexes |-> 0]
    /\ pdCancelled = FALSE
    /\ poolMutex = [writer |-> "none", waiting |-> {}, readers |-> {}]
    /\ directory = [t \in SweepTargets |-> "absent"]
    /\ pooledConns = [t \in SweepTargets |-> 0]
    /\ sweepPc = "idle"
    /\ sweepTodo = {}
    /\ sweepTarget = 0
    /\ sweepLeft = 0
    /\ getPc = [g \in Getters |-> "idle"]
    /\ getTarget = [g \in Getters |-> 0]
    /\ rdPc = "idle"
    /\ rdRuns = 0
    /\ startIndex = 0
    /\ remainingDomains = <<>>
    /\ rdBatchIndex = 0
    /\ rdBatchSize = 1
    /\ lastProgress = -1
    /\ attempted = {}
    /\ processedDomains = {}

\* ---- state after construction ----
\* Scheduler.New, NewHealthMonitor, NewSystemMonitor at the first instant.
InitScheduler(configs) ==
    /\ scfg \in configs
    /\ clock = [month |-> 1, day |-> 1, tod |-> 0]
    /\ memPercent = 0
    /\ temperature = 0
    /\ errorRate = 0
    /\ throttleLevel = 0
    /\ currentMode = ModeNow
    /\ health = [MemoryUsage |-> 0, CPUTemperature |-> 0, ErrorRate |-> 0]
    /\ smMetrics = [CPUTemp |-> 0, MemoryPercent |-> 0, ErrorRate |-> 0]
    /\ lastBase = 0
    /\ lastDelay = 0
    /\ throttled = "none"
    /\ profile = "none"
    /\ profileAt = clock
    /\ InitExt

\* ---- actions ----
\* Time passes.
ClockTick ==
    /\ \/ clock.tod < DayLen - 1
       \/ clock.day < DaysPerMonth
       \/ clock.month < MaxMonth
    /\ clock' = IF clock.tod < DayLen - 1
                THEN [clock EXCEPT !.tod = @ + 1]
                ELSE AddDate([clock EXCEPT !.tod = 0], 1)
    /\ UNCHANGED <<cpVars, extVars, wpVars, scfg, memPercent, temperature, errorRate,
                   throttleLevel, currentMode, health, smMetrics, lastBase, lastDelay,
                   throttled, profile, profileAt>>

\* Scheduler.run: the mode-change timer fired.
updateCurrentMode ==
    /\ currentMode' = ModeNow
    /\ UNCHANGED <<cpVars, extVars, wpVars, scfg, clock, memPercent, temperature, errorRate,
                   throttleLevel, health, smMetrics, lastBase, lastDelay, throttled,
                   profile, profileAt>>

\* Scheduler.monitorResources, one tick: updateSystemMetrics samples memory m
\* and temperature t, the error rate is e, adjustThrottling recomputes the
\* level.  The goroutine runs only if high-performance mode is enabled.
monitorResources(m, t, e) ==
    /\ scfg.EnableHighPerformanceMode
    /\ memPercent' = m
    /\ temperature' = t
    /\ errorRate' = e
    /\ throttleLevel' = newThrottleLevel(m, t, e)
    /\ UNCHANGED <<cpVars, extVars, wpVars, scfg, clock, currentMode, health, smMetrics,
                   lastBase, lastDelay, throttled, profile, profileAt>>

\* A caller asks for the delay; t is the thermal-zone reading.
GetAdaptiveDelay(baseDelay, t) ==
    /\ lastBase' = baseDelay
    /\ lastDelay' = AdaptiveDelay(baseDelay, t)
    /\ UNCHANGED <<cpVars, extVars, wpVars, scfg, clock, memPercent, temperature, errorRate,
                   throttleLevel, currentMode, health, smMetrics, throttled, profile, profileAt>>

\* A caller asks whether to throttle.
ShouldThrottleCall ==
    /\ throttled' = IF ShouldThrottle THEN "yes" ELSE "no"
    /\ UNCHANGED <<cpVars, extVars, wpVars, scfg, clock, memPercent, temperature, errorRate,
                   throttleLevel, currentMode, health, smMetrics, lastBase, lastDelay,
                   profile, profileAt>>

\* A caller asks for the current profile.
GetCurrentProfileCall ==
    /\ profile' = GetCurrentProfile
    /\ profileAt' = clock
    /\ UNCHANGED <<cpVars, extVars, wpVars, scfg, clock, memPercent, temperature, errorRate,
                   throttleLevel, currentMode, health, smMetrics, lastBase, lastDelay,
                   throttled>>

\* HealthMonitor.monitor, one tick: updateHealth.
updateHealth(m, t, e) ==
    /\ health' = [MemoryUsage |-> m, CPUTemperature |-> t, ErrorRate |-> e]
    /\ UNCHANGED <<cpVars, extVars, wpVars, scfg, clock, memPercent, temperature, errorRate,
                   throttleLevel, currentMode, smMetrics, lastBase, lastDelay,
                   throttled, profile, profileAt>>

\* SystemMonitor.monitorLoop, the temperature ticker: updateCPUTemperature;
\* the worker pool's next GetOptimalWorkerCount sees the new metrics.
updateCPUTemperature(t) ==
    /\ smMetrics' = [smMetrics EXCEPT !.CPUTemp = t]
    /\ optimal' = GetOptimalWorkerCount(wcfg, smMetrics')
    /\ UNCHANGED <<cpVars, extVars, wcfg, workers, wstate, wtask, wquit, activeCount, wgCount,
                   taskChan, taskClosed, resultChan, wpCancelled, started, stopPc,
                   mgrPc, handlerPc, subPc, subTask, subFull, nextTask, accepted,
                   processedCount, errorCount, c0, ticks, changes, zeroTaken,
                   wpCrashed>>
    /\ UNCHANGED <<scfg, clock, memPercent, temperature, errorRate, throttleLevel,
                   currentMode, health, lastBase, lastDelay, throttled, profile,
                   profileAt>>

\* SystemMonitor.UpdateStats: the worker pool reports its error rate, in
\* percent; the worker count is not computed from it.
UpdateStats(e) ==
    /\ smMetrics' = [smMetrics EXCEPT !.ErrorRate = e]
    /\ UNCHANGED <<cpVars, extVars, wpVars, scfg, clock, memPercent, temperature, errorRate,
                   throttleLevel, currentMode, health, lastBase, lastDelay, throttled,
                   profile, profileAt>>

\* SystemMonitor.monitorLoop, the memory ticker: updateMemoryUsage.
updateMemoryUsage(m) ==
    /\ smMetrics' = [smMetrics EXCEPT !.MemoryPercent = m]
    /\ optimal' = GetOptimalWorkerCount(wcfg, smMetrics')
    /\ UNCHANGED <<cpVars, extVars, wcfg, workers, wstate, wtask, wquit, activeCount, wgCount,
                   taskChan, taskClosed, resultChan, wpCancelled, started, stopPc,
                   mgrPc, handlerPc, subPc, subTask, subFull, nextTask, accepted,
                   processedCount, errorCount, c0, ticks, changes, zeroTaken,
                   wpCrashed>>
    /\ UNCHANGED <<scfg, clock, memPercent, temperature, errorRate, throttleLevel,
                   currentMode, health, lastBase, lastDelay, throttled, profile,
                   profileAt>>

\* ---- the throttling scenario ----
MonitorResourcesTick ==
    \E m \in SchedMemory, t \in SchedTemperatures, e \in ErrorRates :
        monitorResources(m, t, e)
DelayCall == \E b \in BaseDelays, t \in SchedTemperatures : GetAdaptiveDelay(b, t)

NextSched ==
    \/ ClockTick
    \/ updateCurrentMode
    \/ MonitorResourcesTick
    \/ DelayCall

\* ---- the monitor scenario ----
HealthTickAll ==
    \E m \in MemoryReadings, t \in Temperatures, e \in ErrorRates : updateHealth(m, t, e)
TemperatureTick == \E t \in MonitorTemperatures : updateCPUTemperature(t)
MemoryTick == \E m \in MonitorMemory : updateMemoryUsage(m)
StatsTick == \E e \in StatRates : UpdateStats(e)

NextMon ==
    \/ HealthTickAll
    \/ TemperatureTick
    \/ MemoryTick
    \/ StatsTick

\* ---- the batch scenario ----
\* HealthMonitor.GetOptimalBatchSize is called.
HealthMonitorGetOptimalBatchSize(b) ==
    /\ batch' = [base |-> b,
                 size |-> GetOptimalBatchSize(b, health, BatchSettings[HealthConfigProfile]),
                 profile |-> HealthConfigProfile,
                 via |-> "HealthMonitor"]
    /\ UNCHANGED <<resVars, lockVars, domVars, cpVars, wpVars, schVars, countVars, alertVars, scanVars, loopVars>>

\* Scheduler.GetOptimalBatchSize is called: it asks the HealthMonitor in
\* high-performance mode and returns the base otherwise.
SchedulerGetOptimalBatchSize(b) ==
    /\ batch' = [base |-> b,
                 size |-> IF scfg.EnableHighPerformanceMode
                          THEN GetOptimalBatchSize(b, health, BatchSettings[HealthConfigProfile])
                          ELSE b,
                 profile |-> HealthConfigProfile,
                 via |-> "Scheduler"]
    /\ UNCHANGED <<resVars, lockVars, domVars, cpVars, wpVars, schVars, countVars, alertVars, scanVars, loopVars>>

HealthTickBatch ==
    \E m \in BatchMemory, t \in BatchTemperatures : updateHealth(m, t, 1)
BatchSizeCall == \E b \in BatchBases : HealthMonitorGetOptimalBatchSize(b)
SchedulerBatchSizeCall == \E b \in BatchBases : SchedulerGetOptimalBatchSize(b)

NextBatch ==
    \/ ClockTick
    \/ HealthTickBatch
    \/ BatchSizeCall
    \/ SchedulerBatchSizeCall

\* ---- the counter scenario ----
\* Scheduler.RecordSuccess, Scheduler.RecordError.
RecordSuccess ==
    /\ metricCounts.SuccessCount + metricCounts.ErrorCount < MaxSingles
    /\ metricCounts' = [metricCounts EXCEPT !.SuccessCount = @ + 1]
    /\ UNCHANGED <<resVars, lockVars, domVars, cpVars, wpVars, schVars, batchVars, alertVars, scanVars, loopVars, hmCounts>>

RecordError ==
    /\ metricCounts.SuccessCount + metricCounts.ErrorCount < MaxSingles
    /\ metricCounts' = [metricCounts EXCEPT !.ErrorCount = @ + 1]
    /\ UNCHANGED <<resVars, lockVars, domVars, cpVars, wpVars, schVars, batchVars, alertVars, scanVars, loopVars, hmCounts>>

\* A batch of work calls RecordSuccess, or RecordError, BurstSize times
\* between two samples.
RecordSuccessBurst ==
    /\ metricCounts.SuccessCount + metricCounts.ErrorCount < MaxRecorded
    /\ metricCounts' = [metricCounts EXCEPT !.SuccessCount = @ + BurstSize]
    /\ UNCHANGED <<resVars, lockVars, domVars, cpVars, wpVars, schVars, batchVars, alertVars, scanVars, loopVars, hmCounts>>

RecordErrorBurst ==
    /\ metricCounts.SuccessCount + metricCounts.ErrorCount < MaxRecorded
    /\ metricCounts' = [metricCounts EXCEPT !.ErrorCount = @ + BurstSize]
    /\ UNCHANGED <<resVars, lockVars, domVars, cpVars, wpVars, schVars, batchVars, alertVars, scanVars, loopVars, hmCounts>>

\* monitorResources, one tick, with the error rate updateSystemMetrics
\* computes from the counters.
MonitorResourcesCounted ==
    \E m \in {50, 85} : monitorResources(m, 50, SampledErrorRate)

\* HealthMonitor.RecordError, HealthMonitor.RecordRequest.
HealthMonitorRecordError ==
    /\ hmCounts.requestCount + hmCounts.errorCount < MaxSingles
    /\ hmCounts' = [hmCounts EXCEPT !.errorCount = @ + 1]
    /\ UNCHANGED <<resVars, lockVars, domVars, cpVars, wpVars, schVars, batchVars, alertVars, scanVars, loopVars, metricCounts>>

HealthMonitorRecordRequest ==
    /\ hmCounts.requestCount + hmCounts.errorCount < MaxSingles
    /\ hmCounts' = [hmCounts EXCEPT !.requestCount = @ + 1]
    /\ UNCHANGED <<resVars, lockVars, domVars, cpVars, wpVars, schVars, batchVars, alertVars, scanVars, loopVars, metricCounts>>

\* BurstSize requests are recorded between two samples.
HealthMonitorRequestBurst ==
    /\ hmCounts.requestCount < MaxRecorded
    /\ hmCounts' = [hmCounts EXCEPT !.requestCount = @ + BurstSize]
    /\ UNCHANGED <<resVars, lockVars, domVars, cpVars, wpVars, schVars, batchVars, alertVars, scanVars, loopVars, metricCounts>>

\* HealthMonitor.monitor, one tick: updateHealth with the error rate
\* calculateErrorRate computes, which halves the counters past the guard.
updateHealthCounted(m, t) ==
    /\ health' = [MemoryUsage |-> m, CPUTemperature |-> t, ErrorRate |-> calculateErrorRate]
    /\ hmCounts' = CountsAfterRate(hmCounts)
    /\ UNCHANGED <<resVars, lockVars, domVars, cpVars, wpVars, batchVars, alertVars, scanVars, loopVars, metricCounts, scfg, clock, memPercent,
                   temperature, errorRate, throttleLevel, currentMode, smMetrics,
                   lastBase, lastDelay, throttled, profile, profileAt>>

HealthTickCounted == updateHealthCounted(50, 50)

NextCount ==
    \/ RecordSuccess
    \/ RecordError
    \/ RecordSuccessBurst
    \/ RecordErrorBurst
    \/ MonitorResourcesCounted
    \/ HealthMonitorRecordError
    \/ HealthMonitorRecordRequest
    \/ HealthMonitorRequestBurst
    \/ HealthTickCounted

\* ---- the alert scenario ----
\* HealthMonitor.Start: go h.monitor(), go h.handleAlerts().
HealthMonitorStart ==
    /\ samplerPc = "off"
    /\ samplerPc' = "idle"
    /\ alertPc' = "wait"
    /\ UNCHANGED <<resVars, lockVars, domVars, cpVars, wpVars, schVars, batchVars, countVars, scanVars, loopVars, alertChan, alerts,
                   hmMutex, pending, lastSend, hmCancelled>>

\* HealthMonitor.Stop: h.cancel().
HealthMonitorStop ==
    /\ samplerPc # "off"
    /\ ~hmCancelled
    /\ hmCancelled' = TRUE
    /\ UNCHANGED <<resVars, lockVars, domVars, cpVars, wpVars, schVars, batchVars, countVars, scanVars, loopVars, alertChan, alerts,
                   hmMutex, samplerPc, pending, alertPc, lastSend>>

\* monitor: the ticker fires; updateHealth takes the mutex, stores the
\* snapshot and enters checkAlerts.
updateHealthLock(m, t) ==
    /\ samplerPc = "idle"
    /\ hmMutex = "free"
    /\ hmMutex' = "sampler"
    /\ health' = [MemoryUsage |-> m, CPUTemperature |-> t, ErrorRate |-> calculateErrorRate]
    /\ hmCounts' = CountsAfterRate(hmCounts)
    /\ pending' = AlertsDue(health')
    /\ samplerPc' = "check"
    /\ UNCHANGED <<resVars, lockVars, domVars, cpVars, wpVars, batchVars, scanVars, loopVars, metricCounts, alertChan, alerts, alertPc,
                   lastSend, hmCancelled, scfg, clock, memPercent, temperature,
                   errorRate, throttleLevel, currentMode, smMetrics, lastBase,
                   lastDelay, throttled, profile, profileAt>>

\* checkAlerts calls sendAlert: the alert is queued if the channel has room
\* and dropped if not.
sendAlert ==
    /\ samplerPc = "check"
    /\ pending # <<>>
    /\ SendProceeds(alertChan)
    /\ IF alertChan < AlertChanCap
       THEN alertChan' = alertChan + 1 /\ lastSend' = "queued"
       ELSE alertChan' = alertChan /\ lastSend' = "dropped"
    /\ pending' = Tail(pending)
    /\ UNCHANGED <<resVars, lockVars, domVars, cpVars, wpVars, schVars, batchVars, countVars, scanVars, loopVars, alerts, hmMutex,
                   samplerPc, alertPc, hmCancelled>>

\* updateHealth returns: the deferred Unlock runs.
updateHealthUnlock ==
    /\ samplerPc = "check"
    /\ pending = <<>>
    /\ hmMutex' = "free"
    /\ samplerPc' = "idle"
    /\ UNCHANGED <<resVars, lockVars, domVars, cpVars, wpVars, schVars, batchVars, countVars, scanVars, loopVars, alertChan, alerts,
                   pending, alertPc, lastSend, hmCancelled>>

\* monitor: the select takes ctx.Done.
monitorExit ==
    /\ samplerPc = "idle"
    /\ hmCancelled
    /\ samplerPc' = "exited"
    /\ UNCHANGED <<resVars, lockVars, domVars, cpVars, wpVars, schVars, batchVars, countVars, scanVars, loopVars, alertChan, alerts,
                   hmMutex, pending, alertPc, lastSend, hmCancelled>>

\* handleAlerts: the select receives an alert.
handleAlertsReceive ==
    /\ alertPc = "wait"
    /\ alertChan > 0
    /\ alertChan' = alertChan - 1
    /\ alertPc' = "lock"
    /\ UNCHANGED <<resVars, lockVars, domVars, cpVars, wpVars, schVars, batchVars, countVars, scanVars, loopVars, alerts, hmMutex,
                   samplerPc, pending, lastSend, hmCancelled>>

\* processAlert: h.mutex.Lock() returns.
processAlertLock ==
    /\ alertPc = "lock"
    /\ hmMutex = "free"
    /\ hmMutex' = "handler"
    /\ alertPc' = "locked"
    /\ UNCHANGED <<resVars, lockVars, domVars, cpVars, wpVars, schVars, batchVars, countVars, scanVars, loopVars, alertChan, alerts,
                   samplerPc, pending, lastSend, hmCancelled>>

\* processAlert: the alert is appended, the oldest one dropped beyond
\* AlertsKept, and the mutex released.
processAlertUnlock ==
    /\ alertPc = "locked"
    /\ alerts' = IF alerts + 1 > AlertsKept THEN alerts ELSE alerts + 1
    /\ hmMutex' = "free"
    /\ alertPc' = "wait"
    /\ UNCHANGED <<resVars, lockVars, domVars, cpVars, wpVars, schVars, batchVars, countVars, scanVars, loopVars, alertChan, samplerPc,
                   pending, lastSend, hmCancelled>>

\* handleAlerts: the select takes ctx.Done.
handleAlertsExit ==
    /\ alertPc = "wait"
    /\ hmCancelled
    /\ alertPc' = "exited"
    /\ UNCHANGED <<resVars, lockVars, domVars, cpVars, wpVars, schVars, batchVars, countVars, scanVars, loopVars, alertChan, alerts,
                   hmMutex, samplerPc, pending, lastSend, hmCancelled>>

AlertSampleTick ==
    \E m \in AlertMemory, t \in AlertTemperatures : updateHealthLock(m, t)

NextAlert ==
    \/ HealthMonitorStart
    \/ HealthMonitorStop
    \/ AlertSampleTick
    \/ sendAlert
    \/ updateHealthUnlock
    \/ monitorExit
    \/ handleAlertsReceive
    \/ processAlertLock
    \/ processAlertUnlock
    \/ handleAlertsExit

\* ---- the batch loop scenario ----
\* resolveDNS / scanPortOnIPs: the loop takes its first batch.
scanStart ==
    /\ scanPc = "idle"
    /\ scanPc' = "launch"
    /\ UNCHANGED <<resVars, lockVars, domVars, cpVars, wpVars, schVars, batchVars, countVars, alertVars, loopVars, batchIndex,
                   units, scanWg, scanSem, checkpoint, semCap>>

\* processDNSBatch / scanPortBatch: wg.Add(1) and go func for the next unit
\* of the batch, in order; after the last one the caller goes to wg.Wait().
scanLaunch(u) ==
    /\ scanPc = "launch"
    /\ units[batchIndex][u] = "none"
    /\ \A v \in BatchUnits : v < u => units[batchIndex][v] # "none"
    /\ units' = [units EXCEPT ![batchIndex][u] = "acquire"]
    /\ scanWg' = scanWg + 1
    /\ scanPc' = IF u = BatchSize THEN "wait" ELSE "launch"
    /\ UNCHANGED <<resVars, lockVars, domVars, cpVars, wpVars, schVars, batchVars, countVars, alertVars, loopVars, batchIndex,
                   scanSem, checkpoint, semCap>>

\* The unit's goroutine: semaphore <- struct{}{}
unitAcquire(b, u) ==
    /\ units[b][u] = "acquire"
    /\ scanSem < semCap
    /\ scanSem' = scanSem + 1
    /\ units' = [units EXCEPT ![b][u] = "running"]
    /\ UNCHANGED <<resVars, lockVars, domVars, cpVars, wpVars, schVars, batchVars, countVars, alertVars, loopVars, scanPc,
                   batchIndex, scanWg, checkpoint, semCap>>

\* The unit's work ends, with its result saved or with an early return on
\* an error; the deferred release of the semaphore runs.
unitRelease(b, u, ok) ==
    /\ units[b][u] = "running"
    /\ scanSem' = scanSem - 1
    /\ units' = [units EXCEPT ![b][u] = IF ok THEN "released" ELSE "errored"]
    /\ UNCHANGED <<resVars, lockVars, domVars, cpVars, wpVars, schVars, batchVars, countVars, alertVars, loopVars, scanPc,
                   batchIndex, scanWg, checkpoint, semCap>>

\* The deferred wg.Done() runs and the goroutine ends.
unitDone(b, u) ==
    /\ units[b][u] \in {"released", "errored"}
    /\ scanWg' = scanWg - 1
    /\ units' = [units EXCEPT ![b][u] = IF units[b][u] = "released" THEN "saved" ELSE "failed"]
    /\ UNCHANGED <<resVars, lockVars, domVars, cpVars, wpVars, schVars, batchVars, countVars, alertVars, loopVars, scanPc,
                   batchIndex, scanSem, checkpoint, semCap>>

\* wg.Wait() returns and the batch function with it.
scanWait ==
    /\ scanPc = "wait"
    /\ WaitReturns(scanWg)
    /\ scanPc' = "save"
    /\ UNCHANGED <<resVars, lockVars, domVars, cpVars, wpVars, schVars, batchVars, countVars, alertVars, loopVars, batchIndex,
                   units, scanWg, scanSem, checkpoint, semCap>>

\* db.SaveProgress for the batch; the loop goes to the next batch or ends.
scanSave ==
    /\ scanPc = "save"
    /\ checkpoint' = batchIndex
    /\ IF batchIndex < BatchCount
       THEN batchIndex' = batchIndex + 1 /\ scanPc' = "launch"
       ELSE batchIndex' = batchIndex /\ scanPc' = "done"
    /\ UNCHANGED <<resVars, lockVars, domVars, cpVars, wpVars, schVars, batchVars, countVars, alertVars, loopVars, units,
                   scanWg, scanSem, semCap>>

NextScan ==
    \/ scanStart
    \/ \E u \in BatchUnits : scanLaunch(u)
    \/ \E b \in ScanBatches, u \in BatchUnits : unitAcquire(b, u)
    \/ \E b \in ScanBatches, u \in BatchUnits, ok \in BOOLEAN : unitRelease(b, u, ok)
    \/ \E b \in ScanBatches, u \in BatchUnits : unitDone(b, u)
    \/ scanWait
    \/ scanSave

\* ---- the shutdown scenario ----
\* Scanner.Run: scheduler.Start() launches run; in high-performance mode
\* the health-reporting loop is launched too.
ScannerRun ==
    /\ scannerPc = "new"
    /\ scannerPc' = "running"
    /\ runPc' = "wait"
    /\ healthLoopPc' = IF scfg.EnableHighPerformanceMode THEN "wait" ELSE "off"
    /\ UNCHANGED <<resVars, lockVars, domVars, cpVars, wpVars, schVars, batchVars, countVars, alertVars, scanVars, schCancelled, monitorPc>>

\* Scanner.Run returns: the deferred scheduler.Stop() cancels the context.
ScannerRunReturn ==
    /\ scannerPc = "running"
    /\ scannerPc' = "returned"
    /\ schCancelled' = TRUE
    /\ UNCHANGED <<resVars, lockVars, domVars, cpVars, wpVars, schVars, batchVars, countVars, alertVars, scanVars, runPc, monitorPc, healthLoopPc>>

\* Scanner.Close: portScanner.Close() and scheduler.Stop().
ScannerClose ==
    /\ scannerPc \in {"new", "returned"}
    /\ scannerPc' = "closed"
    /\ schCancelled' = TRUE
    /\ UNCHANGED <<resVars, lockVars, domVars, cpVars, wpVars, schVars, batchVars, countVars, alertVars, scanVars, runPc, monitorPc, healthLoopPc>>

\* Scheduler.run: the select takes the mode-change timer.
runTimer ==
    /\ runPc = "wait"
    /\ updateCurrentMode

\* Scheduler.run: the select takes ctx.Done.
runExit ==
    /\ runPc = "wait"
    /\ schCancelled
    /\ runPc' = "exited"
    /\ UNCHANGED <<resVars, lockVars, domVars, cpVars, wpVars, schVars, batchVars, countVars, alertVars, scanVars, scannerPc, schCancelled, monitorPc, healthLoopPc>>

\* Scheduler.monitorResources: the select takes the ticker.
monitorResourcesTicker ==
    /\ monitorPc = "wait"
    /\ monitorResources(50, 50, 0)

\* Scheduler.monitorResources: the select takes ctx.Done.
monitorResourcesExit ==
    /\ monitorPc = "wait"
    /\ schCancelled
    /\ monitorPc' = "exited"
    /\ UNCHANGED <<resVars, lockVars, domVars, cpVars, wpVars, schVars, batchVars, countVars, alertVars, scanVars, scannerPc, schCancelled, runPc, healthLoopPc>>

\* Scanner.healthMonitoringLoop: the select, with the ticker as its only
\* case, takes it.
healthMonitoringLoop ==
    /\ healthLoopPc = "wait"
    /\ healthLoopPc' = "report"
    /\ UNCHANGED <<resVars, lockVars, domVars, cpVars, wpVars, schVars, batchVars, countVars, alertVars, scanVars, scannerPc, schCancelled, runPc, monitorPc>>

\* logSystemHealth prints the report and the loop goes back to its select.
logSystemHealth ==
    /\ healthLoopPc = "report"
    /\ healthLoopPc' = "wait"
    /\ UNCHANGED <<resVars, lockVars, domVars, cpVars, wpVars, schVars, batchVars, countVars, alertVars, scanVars, scannerPc, schCancelled, runPc, monitorPc>>

\* HealthMonitor.monitor: a sample below every alert threshold.
QuietSample == updateHealthLock(50, 50)

\* Every component is started, ticks, and is stopped.
NextStop ==
    \/ ScannerRun
    \/ ScannerRunReturn
    \/ ScannerClose
    \/ runTimer
    \/ runExit
    \/ monitorResourcesTicker
    \/ monitorResourcesExit
    \/ healthMonitoringLoop
    \/ logSystemHealth
    \/ HealthMonitorStart
    \/ QuietSample
    \/ updateHealthUnlock
    \/ HealthMonitorStop
    \/ monitorExit
    \/ handleAlertsExit
    \/ Sweep
    \/ Close
    \/ cleanupRoutineExit
    \/ Start
    \/ scaleManagerTick
    \/ adjustWorkerCount
    \/ StopCancel
    \/ StopCloseQueue
    \/ StopWait
    \/ scaleManagerExit
    \/ resultHandlerExit
    \/ \E w \in Slots : WorkerExit(w)

\* ---- the domain submission scenario ----
\* processDomains is called with a configuration and n loaded domains:
\* batchSize := cfg.BatchSize.
processDomains(cfg, n) ==
    /\ pdPc = "idle"
    /\ pdConfig' = cfg
    /\ domainCount' = n
    /\ pdPc' = "top"
    /\ pdI' = 0
    /\ batchSize' = cfg.BatchSize
    /\ UNCHANGED <<resVars, lockVars, cpVars, wpVars, schVars, batchVars, countVars, alertVars, scanVars,
                   loopVars, batchStart, batchEnd, pdJ, submitted, pdCancelled>>

\* One pass through the head of the loop: the loop test, the check of
\* ctx.Done, the bounds of the batch from the current batchSize, then
\* batchSize is set from what monitor.ShouldThrottle() returns.
processDomainsBatch(throttle) ==
    /\ pdPc = "top"
    /\ IF pdI >= totalBatches
       THEN /\ pdPc' = "done"
            /\ UNCHANGED <<batchSize, batchStart, batchEnd, pdJ>>
       ELSE IF pdCancelled
       THEN /\ pdPc' = "returned"
            /\ UNCHANGED <<batchSize, batchStart, batchEnd, pdJ>>
       ELSE /\ batchStart' = pdI * batchSize
            /\ batchEnd' = Min(pdI * batchSize + batchSize, domainCount)
            /\ pdJ' = pdI * batchSize
            /\ batchSize' = IF throttle THEN pdConfig.MinBatchSize ELSE pdConfig.BatchSize
            /\ pdPc' = "submit"
    /\ UNCHANGED <<resVars, lockVars, cpVars, wpVars, schVars, batchVars, countVars, alertVars, scanVars, loopVars, pdConfig, domainCount, pdI, submitted, pdCancelled>>

\* The inner loop: pool.SubmitTask for the next domain of the batch; after
\* the last one the sleep, and i++.
processDomainsSubmit ==
    /\ pdPc = "submit"
    /\ IF pdJ < batchEnd
       THEN /\ submitted' = [submitted EXCEPT ![pdJ] = Min(@ + 1, SubmitCap)]
            /\ pdJ' = pdJ + 1
            /\ UNCHANGED <<pdPc, pdI>>
       ELSE /\ pdPc' = "top"
            /\ pdI' = pdI + 1
            /\ UNCHANGED <<submitted, pdJ>>
    /\ UNCHANGED <<resVars, lockVars, cpVars, wpVars, schVars, batchVars, countVars, alertVars, scanVars, loopVars, pdConfig, domainCount, batchSize, batchStart, batchEnd, pdCancelled>>

\* The shutdown signal cancels ctx.
processDomainsCancel ==
    /\ pdPc \in {"top", "submit"}
    /\ ~pdCancelled
    /\ pdCancelled' = TRUE
    /\ UNCHANGED <<resVars, lockVars, cpVars, wpVars, schVars, batchVars, countVars, alertVars, scanVars, loopVars, pdConfig, domainCount, pdPc, pdI, batchSize, batchStart, batchEnd, pdJ, submitted>>

NextDomains ==
    \/ \E cfg \in PdConfigs, n \in 1..MaxDomains : processDomains(cfg, n)
    \/ \E throttle \in BOOLEAN : processDomainsBatch(throttle)
    \/ processDomainsSubmit
    \/ processDomainsCancel

\* ---- the window scenario ----
NextWindow ==
    \/ ClockTick
    \/ updateCurrentMode
    \/ GetCurrentProfileCall

\* ---- the throttle query scenario ----
NextQuery ==
    \/ ClockTick
    \/ updateCurrentMode
    \/ ShouldThrottleCall
    \/ HealthTickAll

\* The worker pool does not take part in the connection-pool scenarios.
InitPool ==
    /\ InitCP
    /\ InitWP({SmallConfig})
    /\ optimal = wcfg.MaxWorkers
    /\ InitScheduler({DefaultSchedule})

\* The connection pool under two concurrent callers.
SpecCP == InitPool /\ [][NextCP]_vars
\* The connection pool under one caller cycling on one target; the clock
\* starts with the first call.
SpecSeq == InitPool /\ [][NextSeq]_vars
InitTask == InitWP(TaskConfigs) /\ InitCP /\ InitScheduler({DefaultSchedule})

\* The worker pool.
SpecWP == InitTask /\ [][NextWP]_vars

MonitorChangeScale == MonitorChange(MaxChangesScale)

NextScale ==
    \/ Start
    \/ MonitorChangeScale
    \/ scaleManagerTick
    \/ adjustWorkerCount
    \/ \E w \in Slots : WorkerExit(w)

InitScale == InitWP(ScaleConfigs) /\ InitCP /\ InitScheduler({DefaultSchedule})

\* The worker pool's scaling alone: no tasks, no Stop.
SpecScale == InitScale /\ [][NextScale]_vars

\* The scheduler's throttling: the pools do not take part.
InitSched ==
    /\ InitCP
    /\ InitWP({SmallConfig})
    /\ optimal = wcfg.MaxWorkers
    /\ InitScheduler(ThrottleConfigs)
SpecSched == InitSched /\ [][NextSched]_vars

\* The two monitors, the SystemMonitor built with the default configuration.
InitMon ==
    /\ InitCP
    /\ InitWP({DefaultHighPerformanceConfig})
    /\ optimal = wcfg.MaxWorkers
    /\ InitScheduler({DefaultSchedule})
SpecMon == InitMon /\ [][NextMon]_vars

\* The scheduler's throttle query beside the health monitor.
InitQuery ==
    /\ InitCP
    /\ InitWP({SmallConfig})
    /\ optimal = wcfg.MaxWorkers
    /\ InitScheduler(ThrottleConfigs)
SpecQuery == InitQuery /\ [][NextQuery]_vars

\* The profile and mode selection over every configured window.
InitWindow ==
    /\ InitCP
    /\ InitWP({SmallConfig})
    /\ optimal = wcfg.MaxWorkers
    /\ InitScheduler(WindowConfigs)
SpecWindow == InitWindow /\ [][NextWindow]_vars

\* Batch sizing under the health monitor, with high-performance mode on and off.
InitBatch ==
    /\ InitCP
    /\ InitWP({SmallConfig})
    /\ optimal = wcfg.MaxWorkers
    /\ InitScheduler(ThrottleConfigs)
SpecBatch == InitBatch /\ [][NextBatch]_vars

\* The outcome counters and the error rates sampled from them.
InitCount ==
    /\ InitCP
    /\ InitWP({SmallConfig})
    /\ optimal = wcfg.MaxWorkers
    /\ InitScheduler(ThrottleConfigs)
SpecCount == InitCount /\ [][NextCount]_vars

\* The health monitor's sampling loop beside its alert-processing loop.
InitAlert ==
    /\ InitCP
    /\ InitWP({SmallConfig})
    /\ optimal = wcfg.MaxWorkers
    /\ InitScheduler({DefaultSchedule})
SpecAlert == InitAlert /\ [][NextAlert]_vars

\* A batch loop of the scanner and the units of work it launches.
InitScan ==
    /\ InitCP
    /\ InitWP({SmallConfig})
    /\ optimal = wcfg.MaxWorkers
    /\ InitScheduler({DefaultSchedule})
SpecScan == InitScan /\ [][NextScan]_vars

\* The shutdown of every component, with and without high-performance mode.
InitStop ==
    /\ InitCP
    /\ InitWP({SmallConfig})
    /\ optimal = wcfg.MaxWorkers
    /\ InitScheduler(ThrottleConfigs)
SpecStop == InitStop /\ [][NextStop]_vars

\* processDomains before its call.
InitDomains ==
    /\ InitCP
    /\ InitWP({SmallConfig})
    /\ optimal = wcfg.MaxWorkers
    /\ InitScheduler({DefaultSchedule})
SpecDomains == InitDomains /\ [][NextDomains]_vars

\* A select whose ctx.Done case is ready takes it sooner or later, also
\* when its loop passes through that select again and again; a goroutine
\* that can run does, and a ticker keeps firing.
StopFairness ==
    /\ WF_vars(runExit)
    /\ WF_vars(monitorResourcesExit)
    /\ SF_vars(monitorExit)
    /\ WF_vars(handleAlertsExit)
    /\ WF_vars(cleanupRoutineExit)
    /\ SF_vars(scaleManagerExit)
    /\ WF_vars(resultHandlerExit)
    /\ WF_vars(updateHealthUnlock)
    /\ WF_vars(adjustWorkerCount)
    /\ WF_vars(healthMonitoringLoop)
    /\ WF_vars(logSystemHealth)
    /\ WF_vars(\E w \in Slots : WorkerExit(w))
SpecStopFair == InitStop /\ [][NextStop]_vars /\ StopFairness

(***************************************************************************)
(*                    Properties of the ConnectionPool                     *)
(***************************************************************************)

\* Pooled connections checked out by the callers of the model.
HeldPooled == Cardinality({p \in Procs : held[p] # NoConn /\ held[p].pool # NoPool})

\* Pooled connections created and not closed: PooledConnection.Close is the only
\* place a connection is closed, and it runs on the idle ones only.
LivePooled == parked + HeldPooled + IdleCount(hps)

\* C1: under any interleaving of concurrent GetConnection calls, the number of
\* pooled connections created and not yet closed never exceeds
\* config.ConnectionPoolSize.
C1_PooledWithinCeiling == LivePooled <= ConnectionPoolSize

C6_HandedWithinLimits ==
    \A p \in Procs :
        (res[p] = "reused" /\ held[p] # NoConn) =>
            /\ held[p].useCount <= UsageCeiling
            /\ held[p].lastUsed - held[p].createdAt <= KeepAlive * 2

\* The connection c fails the validity check at time t (age or use count).
FailsCheck(c, t) == t - c.createdAt > KeepAlive * 2 \/ c.useCount > UsageCeiling

\* Caller p completes a ReturnConnection of a pooled connection in this step.
ReturnsPooled(p) ==
    /\ held[p] # NoConn
    /\ held[p].pool # NoPool
    /\ held'[p] = NoConn
    /\ parked' = parked

\* C7: ReturnConnection never places a connection that fails the validity
\* check into its host pool; a valid connection returned to a full host pool
\* is closed and the caller is not blocked; no host pool ever holds more than
\* its capacity.
C7_ReturnRevalidates ==
    /\ [](\A i \in HpIds : Len(hps[i].connections) <= maxConnPerPool)
    /\ [][\A p \in Procs : ReturnsPooled(p) =>
            LET c == held[p]
            IN /\ FailsCheck(c, now) =>
                     /\ IdleCount(hps') = IdleCount(hps)
                     /\ res'[p] = "ret_invalid"
               /\ (~FailsCheck(c, now) /\ Len(hps[c.pool].connections) >= maxConnPerPool) =>
                     /\ IdleCount(hps') = IdleCount(hps)
                     /\ res'[p] = "ret_full"
                     /\ pc'[p] = "idle"
                     /\ ~crashed'
               /\ res'[p] = "ret_pushed" =>
                     /\ ~FailsCheck(c, now)
                     /\ IdleCount(hps') = IdleCount(hps) + 1]_vars

\* C7 witness: one caller returned an invalid connection, which was closed; the
\* other returned a valid one to a full host pool, which was closed.
C7_ClosedNotPooled ==
    /\ \E p \in Procs : res[p] = "ret_invalid"
    /\ \E p \in Procs : res[p] = "ret_full"

\* A call of caller p leaves getOrCreateHostPool without a host pool.
TurnedAway(p) == pc[p] = "create" /\ pc'[p] = "direct"

\* C8: the directory never holds more than maxPools host pools; at the cap a
\* call for a new target registers nothing and ends with a direct, unpooled
\* connection (or the dial's own error), while a target that has a host pool
\* keeps using it.
C8_DirectoryCapped ==
    /\ [](DirSize(pools) <= maxPools)
    /\ [](\A p \in Procs : res[p] = "direct" => held[p] # NoConn /\ held[p].pool = NoPool)
    /\ [][\A p \in Procs :
            /\ (pc[p] = "create" /\ pools[tgt[p]] = NoPool /\ DirSize(pools) >= maxPools) =>
                   (pc'[p] # pc[p] => TurnedAway(p) /\ pools' = pools)
            /\ (pc[p] = "direct" /\ pc'[p] # "direct") =>
                   /\ res'[p] \in {"direct", "err_dial"}
                   /\ globalConnCount' = globalConnCount
                   /\ pools' = pools
            /\ (pc[p] = "idle" /\ pc'[p] # "idle" /\ pools[tgt'[p]] # NoPool) =>
                   (pc'[p] = "pop" /\ hp'[p] = pools[tgt'[p]])]_vars

\* C8 witness: with the directory at its cap, a call for another target ended
\* with a direct connection.
C8_DirectAtCap ==
    \E p \in Procs :
        /\ res[p] = "direct"
        /\ held[p].pool = NoPool
        /\ DirSize(pools) = maxPools
        /\ pools[held[p].host] = NoPool

\* C9: once the global connection ceiling is reached it stays reached, and a
\* GetConnection that finds no reusable idle connection then ends with the
\* pool-limit error without dialing; a direct dial is made only by a call that
\* the host-pool cap turned away.
C9_LimitMeansError ==
    [][/\ globalConnCount' >= globalConnCount
       /\ \A p \in Procs :
            /\ (pc[p] = "check" /\ pc'[p] # "check" /\ globalConnCount >= ConnectionPoolSize) =>
                   /\ res'[p] = "err_limit"
                   /\ pc'[p] = "idle"
                   /\ held'[p] = NoConn
                   /\ globalConnCount' = globalConnCount
            /\ (pc'[p] = "direct" /\ pc[p] # "direct") =>
                   /\ pools[tgt[p]] = NoPool
                   /\ DirSize(pools) >= maxPools
            /\ (res'[p] = "direct" /\ res[p] # "direct") => pc[p] = "direct"]_vars

\* C9 witness: a call ended with the pool-limit error at the ceiling.
C9_LimitError ==
    \E p \in Procs : res[p] = "err_limit" /\ globalConnCount >= ConnectionPoolSize

\* C10: when ConnectionPool.Close returns, the cleanup loop is cancelled, the
\* directory is empty and every pooled connection, idle or checked out, has
\* been closed.
C10_CloseLeavesNothing ==
    [][(~poolClosed /\ poolClosed') =>
          /\ cancelled'
          /\ DirSize(pools') = 0
          /\ LivePooled' = 0]_vars

\* Scanner.scanPortWithPool, as a function of how GetConnection ended: every
\* error of GetConnection takes the same early return, the unmodified result
\* (IsOpen false) with a nil error; a connection marks the port open.
scanPortWithPool(outcome) ==
    IF outcome \in {"err_limit", "err_dial"}
    THEN [IsOpen |-> FALSE, err |-> "nil"]
    ELSE [IsOpen |-> TRUE, err |-> "nil"]

\* C11: when GetConnection fails because the pool is exhausted, what the port
\* scanner hands to its caller differs from what it hands over for a closed
\* port (a refused dial), so the caller can tell the two apart.
C11_ExhaustionDistinguishable ==
    \A p \in Procs :
        res[p] = "err_limit" =>
            scanPortWithPool(res[p]) # scanPortWithPool("err_dial")

(***************************************************************************)
(*                      Properties of the WorkerPool                       *)
(***************************************************************************)

CeilDiv(a, b) == (a + b - 1) \div b

\* The distance to the target that remains after n ticks from distance d.
Remaining(d, n) == IF d > n * wcfg.WorkerScaleStep THEN d - n * wcfg.WorkerScaleStep ELSE 0

\* scaleManager completes one adjustWorkerCount in this step.
AdjustStep == mgrPc = "adjust" /\ mgrPc' = "wait"

\* C2: with GetOptimalWorkerCount() held at T since the count was c, the count
\* is exactly T after ceil(|T-c|/WorkerScaleStep) adjustWorkerCount ticks (and
\* after n ticks its distance to T is what n steps leave of |T-c|); a tick
\* changes the count by at most WorkerScaleStep and never moves it past T.
C2_ConvergesByStep ==
    /\ [](started =>
            /\ Abs(optimal - activeCount) = Remaining(Abs(optimal - c0), ticks)
            /\ ticks >= CeilDiv(Abs(optimal - c0), wcfg.WorkerScaleStep) => activeCount = optimal)
    /\ [][AdjustStep =>
            /\ Abs(activeCount' - activeCount) <= wcfg.WorkerScaleStep
            /\ activeCount < optimal => activeCount' <= optimal /\ activeCount' > activeCount
            /\ activeCount > optimal => activeCount' >= optimal /\ activeCount' < activeCount
            /\ activeCount = optimal => activeCount' = activeCount]_vars

\* C2 witness: two ticks, the second a partial step, brought the count from c
\* to a target more than one step away.
C2_Converged ==
    /\ started
    /\ Abs(optimal - c0) > wcfg.WorkerScaleStep
    /\ Abs(optimal - c0) % wcfg.WorkerScaleStep # 0
    /\ ticks = CeilDiv(Abs(optimal - c0), wcfg.WorkerScaleStep)
    /\ activeCount = optimal

\* A SubmitTask call of submitter s has returned.
Returned(s) == subPc[s] = "idle" /\ subTask[s] # 0

\* C3 as stated: the task queue never holds more than 2*MaxWorkers tasks, and a
\* SubmitTask called while the queue was full has, once returned, enqueued its
\* task.
C3_NeverUnsent ==
    /\ Len(taskChan) <= wcfg.MaxWorkers * 2
    /\ \A s \in Subs : (Returned(s) /\ subFull[s]) => subTask[s] \in accepted

\* C3 amended: the task queue never holds more than 2*MaxWorkers tasks; a
\* SubmitTask that has returned has enqueued its task unless the pool's context
\* was cancelled; while the queue is full and the context is not cancelled the
\* call does not return.
C3_UnsentOnlyWhenCancelled ==
    /\ [](/\ Len(taskChan) <= wcfg.MaxWorkers * 2
          /\ \A s \in Subs : Returned(s) => (subTask[s] \in accepted \/ wpCancelled))
    /\ [][\A s \in Subs :
            (subPc[s] = "sending" /\ Len(taskChan) >= wcfg.MaxWorkers * 2 /\ ~wpCancelled) =>
                subPc'[s] = "sending"]_vars

\* C3 witness: a SubmitTask called on a full queue returned, its task enqueued,
\* with the context not cancelled.
C3_SentAfterFull ==
    \E s \in Subs :
        /\ Returned(s)
        /\ subFull[s]
        /\ subTask[s] \in accepted
        /\ ~wpCancelled

\* C4: once Stop has returned, the context is cancelled, the task queue is
\* closed and no executor is running.
C4_StoppedMeansNoExecutor ==
    stopPc = "returned" =>
        /\ wpCancelled
        /\ taskClosed
        /\ \A w \in Slots : wstate[w] = "none"

(***************************************************************************)
(*             Properties of the Scheduler and the monitors                *)
(***************************************************************************)

\* C12: the throttle level adjustThrottling stores is the maximum of the
\* levels that memory, temperature and error rate indicate each on its own,
\* never their sum: a 25-level and a 50-level condition together give 50.
C12_LevelIsMaximum ==
    LET levels == {MemoryLevel(memPercent), TemperatureLevel(temperature),
                   ErrorRateLevel(errorRate)}
    IN  /\ throttleLevel \in levels
        /\ \A l \in levels : l <= throttleLevel
        /\ (/\ MemoryLevel(memPercent) = 25
            /\ TemperatureLevel(temperature) = 50
            /\ ErrorRateLevel(errorRate) = 0) => throttleLevel = 50

\* C12 witness: high memory (25) and high temperature (50) were sampled
\* together and the level is 50.
C12_LightAndMedium ==
    /\ memPercent = 75
    /\ temperature = 65
    /\ errorRate = 1
    /\ throttleLevel = 50

\* C13: whatever the readings, GetThrottleLevel returns one of 0, 25, 50, 75, 90.
C13_LevelInFiveValues == GetThrottleLevel \in {0, 25, 50, 75, 90}

\* C14 (as claimed): with memory at 85%, temperature 50 degrees and error
\* rate 1%, under the critical thresholds 80%, 70 degrees and 5%, the
\* recomputed throttle level is 25.
C14_LevelIs25 ==
    (memPercent = 85 /\ temperature = 50 /\ errorRate = 1) => throttleLevel = 25

\* C14 (amended): with those readings and thresholds the recomputed throttle
\* level is 75, the level of critical memory usage.
C14_LevelIs75 ==
    (memPercent = 85 /\ temperature = 50 /\ errorRate = 1) => throttleLevel = 75

\* C14 witness: those readings were sampled and the level is 75.
C14_CriticalMemorySampled ==
    /\ memPercent = 85
    /\ temperature = 50
    /\ errorRate = 1
    /\ alertThresholds.CriticalMemoryUsage = 80
    /\ alertThresholds.CriticalTemperature = 70
    /\ alertThresholds.CriticalErrorRate = 5
    /\ throttleLevel = 75

\* C15: with memory at 85% and temperature 50 degrees (the error rate, 1%,
\* is not read by the SystemMonitor), the monitor's ShouldThrottle returns
\* true and GetOptimalWorkerCount with maximum 800 and minimum 50 returns 400.
C15_ThrottleAndHalve ==
    /\ (/\ smMetrics.MemoryPercent = 85
        /\ smMetrics.CPUTemp = 50
        /\ wcfg.MaxWorkers = 800
        /\ wcfg.MinWorkers = 50) =>
            /\ SystemMonitorShouldThrottle
            /\ optimal = 400
    /\ (health = [MemoryUsage |-> 85, CPUTemperature |-> 50, ErrorRate |-> 1]) =>
            HealthMonitorShouldThrottle

\* C15 witness: the SystemMonitor sampled those readings and the worker
\* count it recommends is 400.
C15_HighMemorySampled ==
    /\ smMetrics.CPUTemp = 50
    /\ smMetrics.MemoryPercent = 85
    /\ wcfg.MaxWorkers = 800
    /\ wcfg.MinWorkers = 50
    /\ SystemMonitorShouldThrottle
    /\ optimal = 400

\* A GetAdaptiveDelay call returns in this step.
DelayReturned == <<lastBase, lastDelay>>' # <<lastBase, lastDelay>>

C17_DelayScalesBase ==
    [][(DelayReturned /\ currentMode = "HighPerformance") =>
          lastDelay' * 100 = lastBase' * (100 + throttleLevel)]_vars

\* C18: Scheduler.ShouldThrottle returns what the health monitor's
\* ShouldThrottle returns while in high-performance mode, and in every other
\* mode returns true exactly when the mode is not FullPower.
C18_ThrottleDelegates ==
    [][throttled' # throttled =>
          throttled' = IF currentMode = "HighPerformance"
                       THEN (IF HealthMonitorShouldThrottle THEN "yes" ELSE "no")
                       ELSE (IF currentMode # "FullPower" THEN "yes" ELSE "no")]_vars

\* The high-performance schedule window is active, if one is configured.
ScheduleActiveIfAny ==
    scfg.HighPerformanceSchedule.Enabled =>
        InWindow(clock, scfg.HighPerformanceSchedule.Start,
                 scfg.HighPerformanceSchedule.End)

\* C19: GetCurrentProfile returns exactly one of the Conservation, FullPower
\* and HighPerformance profiles, and returns HighPerformance whenever
\* high-performance mode is enabled and its schedule window, if one is
\* configured, is active, whatever the state of the night window.
C19_HighPerformancePrecedence ==
    [][(profile' # profile \/ profileAt' # profileAt) =>
          /\ profile' \in {"Conservation", "FullPower", "HighPerformance"}
          /\ (scfg.EnableHighPerformanceMode /\ ScheduleActiveIfAny) =>
                 profile' = "HighPerformance"]_vars

\* C20: for every night window whose end time of day is earlier than its
\* start, IsFullPowerTime is true at every instant strictly between start and
\* end and false at the instants outside next to start and end, on dates
\* inside a month and on dates where the window spans the month's end.
C20_NightWindowAcrossMidnight ==
    scfg.FullPowerEnd < scfg.FullPowerStart =>
        /\ (clock.tod > scfg.FullPowerStart \/ clock.tod < scfg.FullPowerEnd) =>
               IsFullPowerTime
        /\ (clock.tod > scfg.FullPowerEnd /\ clock.tod < scfg.FullPowerStart) =>
               ~IsFullPowerTime

\* C20 witness: on the first day of a month, before the end of a night window
\* that began on the last day of the month before, GetCurrentProfile was
\* called with high-performance mode off and returned FullPower.
C20_InsideAcrossMonthEnd ==
    /\ scfg.FullPowerEnd < scfg.FullPowerStart
    /\ ~scfg.EnableHighPerformanceMode
    /\ clock.month > 1
    /\ clock.day = 1
    /\ clock.tod < scfg.FullPowerEnd
    /\ profileAt = clock
    /\ profile = "FullPower"

\* The -high-performance flag: both switches on, the schedule left at its
\* default window.
HighPerformanceFlagConfig ==
    /\ scfg.EnableHighPerformanceMode
    /\ scfg.HighPerformanceSchedule.Enabled
    /\ scfg.HighPerformanceSchedule.Start = DefaultHighPerformanceSchedule.Start
    /\ scfg.HighPerformanceSchedule.End = DefaultHighPerformanceSchedule.End

\* C21: with high-performance mode enabled by the -high-performance flag
\* (both switches true, default schedule window), every GetCurrentProfile
\* call returns the HighPerformance profile, at every time of day.
C21_HighPerformanceAllDay ==
    (HighPerformanceFlagConfig /\ profile # "none" /\ profileAt = clock) =>
        profile = "HighPerformance"

\* The results in the result queue, by position.
ResultAt(i) == resultChan[i]

\* C25: when an executor finishes a task whose type is unknown, the Result it
\* publishes has Success = false and carries the unknown-type error (it
\* publishes none only when the pool has been cancelled); the executor stays
\* alive and idle, ready for the next task, the process does not crash, and
\* the scale-manager and result-handling loops stay where they were.  Every
\* result queued for a task of unknown type is such a failure.
C25_UnknownTypeContained ==
    /\ [](\A i \in 1..Len(resultChan) :
            KindOf(ResultAt(i).TaskID) \notin KnownTypes =>
                /\ ~ResultAt(i).Success
                /\ ResultAt(i).Error = "unknown task type")
    /\ [][\A w \in Slots :
            (/\ wstate[w] = "busy"
             /\ KindOf(wtask[w]) \notin KnownTypes
             /\ wstate'[w] # "busy") =>
                /\ wstate'[w] = "idle"
                /\ wpCrashed' = wpCrashed
                /\ mgrPc' = mgrPc
                /\ handlerPc' = handlerPc
                /\ workers' = workers
                /\ \/ resultChan' = Append(resultChan,
                                           [TaskID |-> wtask[w], Success |-> FALSE,
                                            Error |-> "unknown task type", Worker |-> w])
                   \/ wpCancelled /\ resultChan' = resultChan]_vars

\* C25 witness: in a pool that was never scaled down or cancelled, the failed
\* result of the unknown-type task 2 is queued, and behind it the result of
\* task 3, processed afterwards by the same executor; the result handler has
\* counted an earlier result and the scale manager is running.
C25_LaterTaskBySameExecutor ==
    /\ changes = 0
    /\ ~wpCancelled
    /\ ~wpCrashed
    /\ mgrPc \in {"wait", "adjust"}
    /\ handlerPc = "run"
    /\ processedCount = 1
    /\ Len(resultChan) = 2
    /\ ResultAt(1).TaskID = 2
    /\ ~ResultAt(1).Success
    /\ ResultAt(1).Error = "unknown task type"
    /\ ResultAt(2).TaskID = 3
    /\ ResultAt(2).Worker = ResultAt(1).Worker

\* C23, as the code has it: the worker count the SystemMonitor recommends is
\* the minimum when temperature is strictly above MaxCPUTemp or memory
\* strictly above 90%, half the maximum when temperature is strictly above
\* ThrottleTemp or memory strictly above 75%, and the maximum otherwise; a
\* reading equal to a threshold counts as below it.
C23_TiersStrictlyAbove ==
    optimal =
        IF smMetrics.CPUTemp > wcfg.MaxCPUTemp \/ smMetrics.MemoryPercent > 90
        THEN wcfg.MinWorkers
        ELSE IF smMetrics.CPUTemp > wcfg.ThrottleTemp \/ smMetrics.MemoryPercent > 75
        THEN wcfg.MaxWorkers \div 2
        ELSE wcfg.MaxWorkers

\* C23 as stated: the minimum when temperature or memory is at or above its
\* critical threshold, half the maximum when either is at or above its
\* warning threshold, the maximum otherwise.
C23_TiersAtOrAbove ==
    optimal =
        IF smMetrics.CPUTemp >= wcfg.MaxCPUTemp \/ smMetrics.MemoryPercent >= 90
        THEN wcfg.MinWorkers
        ELSE IF smMetrics.CPUTemp >= wcfg.ThrottleTemp \/ smMetrics.MemoryPercent >= 75
        THEN wcfg.MaxWorkers \div 2
        ELSE wcfg.MaxWorkers

\* C23 witness: the temperature sampled equals MaxCPUTemp, memory is low, and
\* the recommendation is half the maximum, not the minimum.
C23_AtCriticalTemperature ==
    /\ smMetrics.CPUTemp = wcfg.MaxCPUTemp
    /\ smMetrics.MemoryPercent = 50
    /\ optimal = wcfg.MaxWorkers \div 2
    /\ optimal # wcfg.MinWorkers

\* C24: each monitor's ShouldThrottle is true exactly when, in its latest
\* snapshot, memory usage, temperature or error rate exceeds the threshold
\* at which that monitor throttles.
C24_ThrottleOnAnyOfThree ==
    /\ HealthMonitorShouldThrottle <=>
          \/ health.MemoryUsage > healthThresholds.MemoryThrottleThreshold
          \/ health.CPUTemperature > healthThresholds.ThermalThrottleThreshold
          \/ health.ErrorRate > healthThresholds.ErrorRateThreshold
    /\ SystemMonitorShouldThrottle <=>
          \/ smMetrics.MemoryPercent > 75
          \/ smMetrics.CPUTemp > wcfg.ThrottleTemp
          \/ smMetrics.ErrorRate > healthThresholds.ErrorRateThreshold

\* The batch settings of the profile that was current at the last
\* GetOptimalBatchSize call.
BatchProfileSettings == BatchSettings[batch.profile]

\* C22, as the code has it: for every base batch size, memory fraction and
\* temperature, GetOptimalBatchSize returns a value within [MinBatchSize,
\* MaxBatchSize] of the current profile when that profile has dynamic batch
\* sizing, and the base batch size unchanged when it has not.
C22_WithinBoundsWhenDynamic ==
    batch.profile # "none" =>
        IF BatchProfileSettings.DynamicBatchSizing
        THEN /\ batch.size >= BatchProfileSettings.MinBatchSize
             /\ batch.size <= BatchProfileSettings.MaxBatchSize
        ELSE batch.size = batch.base

\* C22 as stated: GetOptimalBatchSize returns a value within [MinBatchSize,
\* MaxBatchSize] of the current profile for every base batch size, memory
\* fraction and temperature.
C22_AlwaysWithinBounds ==
    batch.profile # "none" =>
        /\ batch.size >= BatchProfileSettings.MinBatchSize
        /\ batch.size <= BatchProfileSettings.MaxBatchSize

\* C22 witness: under the HighPerformance profile, with memory below 30% and
\* temperature below 50 degrees, base 10000 was scaled up and the call
\* returned MaxBatchSize.
C22_ScaledUpAndClamped ==
    /\ batch.profile = "HighPerformance"
    /\ batch.via = "HealthMonitor"
    /\ batch.base = 10000
    /\ health.MemoryUsage = 20
    /\ health.CPUTemperature = 40
    /\ batch.size = BatchProfileSettings.MaxBatchSize

\* The outcomes the scheduler has recorded so far.
RecordedTotal == metricCounts.SuccessCount + metricCounts.ErrorCount

\* This step is a monitorResources sample; this step is a HealthMonitor sample.
SampleTaken == MonitorResourcesCounted
HealthSampleTaken == HealthTickCounted

HalvedCounts(a, b) == <<a \div 2, b \div 2>>

\* C28: the success and error counters never decrease except by the overflow
\* reset: a sample that finds their total above 10,000 halves both, and no
\* other step lowers either.
C28_HalvedOnOverflow ==
    [][/\ (SampleTaken /\ RecordedTotal > OverflowGuard) =>
              <<metricCounts.SuccessCount, metricCounts.ErrorCount>>' =
                  HalvedCounts(metricCounts.SuccessCount, metricCounts.ErrorCount)
       /\ (HealthSampleTaken /\ hmCounts.requestCount > OverflowGuard) =>
              <<hmCounts.errorCount, hmCounts.requestCount>>' =
                  HalvedCounts(hmCounts.errorCount, hmCounts.requestCount)
       /\ ~(SampleTaken /\ RecordedTotal > OverflowGuard) =>
              /\ metricCounts.SuccessCount' >= metricCounts.SuccessCount
              /\ metricCounts.ErrorCount' >= metricCounts.ErrorCount
       /\ ~(HealthSampleTaken /\ hmCounts.requestCount > OverflowGuard) =>
              /\ hmCounts.errorCount' >= hmCounts.errorCount
              /\ hmCounts.requestCount' >= hmCounts.requestCount]_vars

\* The sampling loop, inside updateHealth, can take its next step: the next
\* sendAlert, or the return that releases the mutex.
SamplerCanProceed == ENABLED sendAlert \/ ENABLED updateHealthUnlock

\* C26: emitting an alert never blocks the sampling loop: while it holds the
\* monitor mutex the sampling loop can always take its next step, a sendAlert
\* on a full alert channel drops the alert and leaves the channel and the
\* mutex as they are, and the alert-processing loop, whether it waits for the
\* mutex or holds it, never waits for something that cannot happen.
C26_AlertsNeverBlockSampling ==
    /\ [](samplerPc = "check" => hmMutex = "sampler" /\ SamplerCanProceed)
    /\ [](alertPc = "lock" =>
             \/ ENABLED processAlertLock
             \/ hmMutex = "sampler" /\ SamplerCanProceed)
    /\ [](alertPc = "locked" => hmMutex = "handler" /\ ENABLED processAlertUnlock)
    /\ [](alertChan <= AlertChanCap)
    /\ [][(samplerPc = "check" /\ alertChan = AlertChanCap /\ pending' # pending) =>
             /\ alertChan' = alertChan
             /\ lastSend' = "dropped"
             /\ hmMutex' = hmMutex
             /\ samplerPc' = samplerPc]_vars

\* C26 witness: the sampling loop dropped an alert on the full channel while
\* the alert-processing loop was waiting for the mutex, then returned from
\* updateHealth and released it.
C26_DroppedWhileHandlerWaits ==
    /\ alertChan = AlertChanCap
    /\ lastSend = "dropped"
    /\ samplerPc = "idle"
    /\ hmMutex = "free"
    /\ alertPc = "lock"

\* ---- C29 ----
UnitFinished(b, u) == units[b][u] \in {"saved", "failed"}

\* C29: in the scanner's batch loops the progress checkpoint of a batch is
\* saved, and the next batch is started, only after every unit of work
\* launched for the batch has finished (its goroutine ended, in success or
\* in error), and the batch's WaitGroup counter is back to zero then.
C29_JoinOnBatch ==
    \A b \in ScanBatches :
        (checkpoint >= b \/ batchIndex > b) =>
            /\ \A u \in BatchUnits : UnitFinished(b, u)
            /\ \A c \in ScanBatches, u \in BatchUnits :
                   units[c][u] \notin {"none", "saved", "failed"} => c > b

\* C29 witness: the checkpoint of batch 1 is saved, one of its units having
\* failed, and a unit of batch 2 is at work.
C29_SecondBatchAfterFirstJoined ==
    /\ checkpoint = 1
    /\ batchIndex = 2
    /\ units[1][1] = "failed"
    /\ units[1][2] = "saved"
    /\ units[2][1] = "running"

\* ---- C30 ----
\* Scheduler.Stop, HealthMonitor.Stop, ConnectionPool.Close, WorkerPool.Stop
\* and Scanner.Close have all returned.
ComponentsStopped ==
    /\ scannerPc = "closed"
    /\ schCancelled
    /\ hmCancelled
    /\ poolClosed
    /\ stopPc = "returned"

\* No background loop of the stopped components is still running, the
\* scanner's health-reporting loop left aside.
ComponentLoopsExited ==
    /\ runPc # "wait"
    /\ monitorPc # "wait"
    /\ samplerPc = "exited"
    /\ alertPc = "exited"
    /\ cleanupLoop = "exited"
    /\ mgrPc = "exited"
    /\ handlerPc = "exited"
    /\ \A w \in Slots : wstate[w] \in {"none", "exited"}

\* C30: once Scheduler.Stop, HealthMonitor.Stop, ConnectionPool.Close,
\* WorkerPool.Stop and Scanner.Close have been called, every background loop
\* the components started eventually terminates, the scanner's
\* health-reporting loop included.
C30_LoopsTerminate ==
    ComponentsStopped ~> (ComponentLoopsExited /\ healthLoopPc = "off")

\* ---- C31 ----
\* C31: the pool's global connection count always equals the number of
\* pooled connections created and not yet closed, so that closing pooled
\* connections at the ceiling makes room for a later GetConnection.
C31_CountIsLive == globalConnCount = LivePooled

\* ---- C32 ----
\* Caller p completes a ReturnConnection in this step, the process going on.
Returns(p) ==
    /\ held[p] # NoConn
    /\ held'[p] = NoConn
    /\ parked' = parked
    /\ ~crashed'

\* C32: every connection obtained from GetConnection and passed to
\* ReturnConnection ends up idle in a host pool or closed, the direct
\* unpooled connections of the host-pool cap included.
C32_ReturnedIsPooledOrClosed ==
    [][\A p \in Procs :
          Returns(p) => res'[p] \in {"ret_pushed", "ret_invalid", "ret_full"}]_vars

\* ---- C33 ----
\* C33: ReturnConnection completes without panicking for a connection that
\* was checked out before its host pool was evicted by the cleanup sweep or
\* before Close was called.
C33_ReturnNeverPanics ==
    [][\A p \in Procs :
          (held[p] # NoConn /\ held'[p] = NoConn /\ parked' = parked) => ~crashed']_vars

\* ---- C34 ----
\* C34: a SubmitTask call running concurrently with, or after,
\* WorkerPool.Stop returns without panicking.
C34_SubmitNeverPanics ==
    [][\A s \in Subs : SubmitTaskSelect(s) => ~wpCrashed']_vars

\* ---- C35 ----
\* C35: processDomains submits every loaded domain to the worker pool
\* exactly once, whatever monitor.ShouldThrottle() returns between the
\* batches, unless it is cancelled.
C35_EveryDomainOnce ==
    pdPc = "done" => \A d \in DomainIndexes : d < domainCount => submitted[d] = 1

\* ---- C36 ----
\* The tasks waiting in the queue, being executed, and with a result queued.
QueuedTasks == {taskChan[i] : i \in 1..Len(taskChan)}
BusyWorkers == {w \in Slots : wstate[w] = "busy"}
BusyTasks == {wtask[w] : w \in BusyWorkers}
ResultTasks == {resultChan[i].TaskID : i \in 1..Len(resultChan)}

\* C36: before Stop is called, every task accepted by SubmitTask is in
\* exactly one place - waiting in the queue, with exactly one executor, as
\* exactly one Result in the result queue, or handled by the result handler -
\* across any scale-up and scale-down ticks; processedCount grows by one
\* exactly when the handler takes a result, and errorCount, which grows only
\* then and only for a failed result, never exceeds it.
C36_EachTaskOnce ==
    /\ [](stopPc = "none" =>
            /\ Cardinality(QueuedTasks) = Len(taskChan)
            /\ Cardinality(BusyTasks) = Cardinality(BusyWorkers)
            /\ Cardinality(ResultTasks) = Len(resultChan)
            /\ QueuedTasks \cap BusyTasks = {}
            /\ QueuedTasks \cap ResultTasks = {}
            /\ BusyTasks \cap ResultTasks = {}
            /\ (QueuedTasks \cup BusyTasks \cup ResultTasks) \subseteq accepted
            /\ Cardinality(accepted) =
                   Len(taskChan) + Cardinality(BusyWorkers) + Len(resultChan) + processedCount)
    /\ [](errorCount <= processedCount)
    /\ [][/\ (processedCount' # processedCount \/ Len(resultChan') < Len(resultChan)) =>
                /\ handlerPc = "run"
                /\ resultChan # <<>>
                /\ resultChan' = Tail(resultChan)
                /\ processedCount' = processedCount + 1
          /\ errorCount' # errorCount =>
                /\ processedCount' = processedCount + 1
                /\ ~Head(resultChan).Success
                /\ errorCount' = errorCount + 1]_vars

\* C36 witness: Stop not called, the pool scaled up by a tick; the three
\* tasks were accepted, two results are handled, one of them a failure, and
\* the result of the third task, executed by a second executor, is queued.
C36_ThreeTasksOnceEach ==
    /\ stopPc = "none"
    /\ ~wpCrashed
    /\ Len(workers) = 2
    /\ Cardinality(accepted) = 3
    /\ processedCount = 2
    /\ errorCount = 1
    /\ taskChan = <<>>
    /\ BusyWorkers = {}
    /\ Len(resultChan) = 1
    /\ ResultAt(1).TaskID = 3
    /\ ResultAt(1).Worker = 2

(***************************************************************************)
(*        Worker count of the pool under the configuration's shape         *)
(***************************************************************************)

\* NewHighPerformanceConfig scaled down: MinWorkers above one, at most half
\* of MaxWorkers as in 50 of 800, WorkerScaleStep below their difference.
WideConfig == [MaxWorkers |-> BigMaxWorkers, MinWorkers |-> 2, WorkerScaleStep |-> 1]
RangeConfigs == {MidConfig, BigConfig, WideConfig}

NextRange ==
    \/ Start
    \/ MonitorChangeScale
    \/ scaleManagerTick
    \/ scaleManagerExit
    \/ adjustWorkerCount
    \/ \E w \in Slots : WorkerExit(w)
    \/ StopCancel
    \/ StopCloseQueue
    \/ StopWait

InitRange == InitWP(RangeConfigs) /\ InitCP /\ InitScheduler({DefaultSchedule})

\* Start, the scale manager's ticks and Stop on a pool without tasks.
SpecRange == InitRange /\ [][NextRange]_vars

PresentPools == {t \in SweepTargets : directory[t] # "absent"}

\* GetConnection calls getOrCreateHostPool(target), which asks for the read lock.
getCall(g, t) ==
    /\ getPc[g] = "idle"
    /\ getPc' = [getPc EXCEPT ![g] = "rlock"]
    /\ getTarget' = [getTarget EXCEPT ![g] = t]
    /\ UNCHANGED <<resVars, cpVars, wpVars, schVars, batchVars, countVars, alertVars, scanVars,
                   loopVars, domVars, poolMutex, directory, pooledConns, sweepPc,
                   sweepTodo, sweepTarget, sweepLeft>>

\* cp.poolMutex.RLock() returns: no writer holds the lock or waits for it.
getRLock(g) ==
    /\ getPc[g] = "rlock"
    /\ poolMutex.writer = "none"
    /\ poolMutex.waiting = {}
    /\ poolMutex' = [poolMutex EXCEPT !.readers = @ \cup {g}]
    /\ getPc' = [getPc EXCEPT ![g] = "lookup"]
    /\ UNCHANGED <<resVars, cpVars, wpVars, schVars, batchVars, countVars, alertVars, scanVars,
                   loopVars, domVars, directory, pooledConns, sweepPc, sweepTodo,
                   sweepTarget, sweepLeft, getTarget>>

\* The lookup and RUnlock: an existing pool is touched next, a missing one
\* sends the caller to the write lock.
getLookup(g) ==
    /\ getPc[g] = "lookup"
    /\ IF directory[getTarget[g]] # "absent"
       THEN /\ poolMutex' = [poolMutex EXCEPT !.readers = @ \ {g}]
            /\ getPc' = [getPc EXCEPT ![g] = "touch"]
       ELSE /\ poolMutex' = [poolMutex EXCEPT !.readers = @ \ {g}, !.waiting = @ \cup {g}]
            /\ getPc' = [getPc EXCEPT ![g] = "lock"]
    /\ UNCHANGED <<resVars, cpVars, wpVars, schVars, batchVars, countVars, alertVars, scanVars,
                   loopVars, domVars, directory, pooledConns, sweepPc, sweepTodo,
                   sweepTarget, sweepLeft, getTarget>>

\* hostPool.lastUsed = time.Now() under the host pool's own lock; the caller
\* returns with the pool.
getTouch(g) ==
    /\ getPc[g] = "touch"
    /\ directory' = [directory EXCEPT ![getTarget[g]] = IF @ = "absent" THEN @ ELSE "fresh"]
    /\ getPc' = [getPc EXCEPT ![g] = "idle"]
    /\ UNCHANGED <<resVars, cpVars, wpVars, schVars, batchVars, countVars, alertVars, scanVars,
                   loopVars, domVars, poolMutex, pooledConns, sweepPc, sweepTodo,
                   sweepTarget, sweepLeft, getTarget>>

\* cp.poolMutex.Lock() returns: no writer and no reader holds the lock.
getLock(g) ==
    /\ getPc[g] = "lock"
    /\ poolMutex.writer = "none"
    /\ poolMutex.readers = {}
    /\ poolMutex' = [poolMutex EXCEPT !.writer = g, !.waiting = @ \ {g}]
    /\ getPc' = [getPc EXCEPT ![g] = "create"]
    /\ UNCHANGED <<resVars, cpVars, wpVars, schVars, batchVars, countVars, alertVars, scanVars,
                   loopVars, domVars, directory, pooledConns, sweepPc, sweepTodo,
                   sweepTarget, sweepLeft, getTarget>>

\* Under the write lock: the second lookup, the maxPools check, the new pool;
\* the deferred Unlock runs as the caller returns.
getCreate(g) ==
    /\ getPc[g] = "create"
    /\ IF directory[getTarget[g]] # "absent"
       THEN UNCHANGED <<directory, pooledConns>>
       ELSE IF Cardinality(PresentPools) >= SweepMaxPools
       THEN UNCHANGED <<directory, pooledConns>>
       ELSE /\ directory' = [directory EXCEPT ![getTarget[g]] = "fresh"]
            /\ pooledConns' = [pooledConns EXCEPT ![getTarget[g]] = 0]
    /\ poolMutex' = [poolMutex EXCEPT !.writer = "none"]
    /\ getPc' = [getPc EXCEPT ![g] = "idle"]
    /\ UNCHANGED <<resVars, cpVars, wpVars, schVars, batchVars, countVars, alertVars, scanVars,
                   loopVars, domVars, sweepPc, sweepTodo, sweepTarget, sweepLeft,
                   getTarget>>

\* ReturnConnection sends a connection to the channel of a pool in the directory.
poolSend(t) ==
    /\ directory[t] # "absent"
    /\ pooledConns[t] < SweepConns
    /\ pooledConns' = [pooledConns EXCEPT ![t] = @ + 1]
    /\ UNCHANGED <<resVars, cpVars, wpVars, schVars, batchVars, countVars, alertVars, scanVars,
                   loopVars, domVars, poolMutex, directory, sweepPc, sweepTodo,
                   sweepTarget, sweepLeft, getPc, getTarget>>

\* Time passes: lastUsed of a pool falls behind the cutoff of cleanup.
poolAges(t) ==
    /\ directory[t] = "fresh"
    /\ directory' = [directory EXCEPT ![t] = "stale"]
    /\ UNCHANGED <<resVars, cpVars, wpVars, schVars, batchVars, countVars, alertVars, scanVars,
                   loopVars, domVars, poolMutex, pooledConns, sweepPc, sweepTodo,
                   sweepTarget, sweepLeft, getPc, getTarget>>

\* The cleanup ticker fires: cleanup asks for the write lock.
cleanupCall ==
    /\ sweepPc = "idle"
    /\ sweepPc' = "lock"
    /\ poolMutex' = [poolMutex EXCEPT !.waiting = @ \cup {"cleanup"}]
    /\ UNCHANGED <<resVars, cpVars, wpVars, schVars, batchVars, countVars, alertVars, scanVars,
                   loopVars, domVars, directory, pooledConns, sweepTodo, sweepTarget,
                   sweepLeft, getPc, getTarget>>

\* cleanup: cp.poolMutex.Lock() returns and the range over cp.pools begins.
cleanupLock ==
    /\ sweepPc = "lock"
    /\ poolMutex.writer = "none"
    /\ poolMutex.readers = {}
    /\ poolMutex' = [poolMutex EXCEPT !.writer = "cleanup", !.waiting = @ \ {"cleanup"}]
    /\ sweepPc' = "range"
    /\ sweepTodo' = PresentPools
    /\ UNCHANGED <<resVars, cpVars, wpVars, schVars, batchVars, countVars, alertVars, scanVars,
                   loopVars, domVars, directory, pooledConns, sweepTarget, sweepLeft,
                   getPc, getTarget>>

\* cleanup visits a pool: a stale pool is deleted from the directory and all
\* its connections are to be closed; of a pool in use cleanupHostPool drains
\* the channel and is to close the old and invalid connections (old of them).
cleanupVisit(t, old) ==
    /\ sweepPc = "range"
    /\ t \in sweepTodo
    /\ sweepTodo' = sweepTodo \ {t}
    /\ sweepTarget' = t
    /\ IF directory[t] = "stale"
       THEN /\ directory' = [directory EXCEPT ![t] = "absent"]
            /\ sweepLeft' = pooledConns[t]
            /\ pooledConns' = [pooledConns EXCEPT ![t] = 0]
       ELSE /\ old <= pooledConns[t]
            /\ sweepLeft' = old
            /\ pooledConns' = [pooledConns EXCEPT ![t] = @ - old]
            /\ UNCHANGED directory
    /\ sweepPc' = IF sweepLeft' > 0 THEN "closing" ELSE "range"
    /\ UNCHANGED <<resVars, cpVars, wpVars, schVars, batchVars, countVars, alertVars, scanVars,
                   loopVars, domVars, poolMutex, getPc, getTarget>>

\* cleanup: one conn.Close() returns.
cleanupClose ==
    /\ sweepPc = "closing"
    /\ sweepLeft' = sweepLeft - 1
    /\ sweepPc' = IF sweepLeft' = 0 THEN "range" ELSE "closing"
    /\ UNCHANGED <<resVars, cpVars, wpVars, schVars, batchVars, countVars, alertVars, scanVars,
                   loopVars, domVars, poolMutex, directory, pooledConns, sweepTodo,
                   sweepTarget, getPc, getTarget>>

\* cleanup returns: the deferred cp.poolMutex.Unlock() runs.
cleanupUnlock ==
    /\ sweepPc = "range"
    /\ sweepTodo = {}
    /\ sweepPc' = "idle"
    /\ sweepTarget' = 0
    /\ poolMutex' = [poolMutex EXCEPT !.writer = "none"]
    /\ UNCHANGED <<resVars, cpVars, wpVars, schVars, batchVars, countVars, alertVars, scanVars,
                   loopVars, domVars, directory, pooledConns, sweepTodo, sweepLeft,
                   getPc, getTarget>>

NextSweep ==
    \/ \E g \in Getters, t \in SweepTargets : getCall(g, t)
    \/ \E g \in Getters : getRLock(g)
    \/ \E g \in Getters : getLookup(g)
    \/ \E g \in Getters : getTouch(g)
    \/ \E g \in Getters : getLock(g)
    \/ \E g \in Getters : getCreate(g)
    \/ \E t \in SweepTargets : poolSend(t)
    \/ \E t \in SweepTargets : poolAges(t)
    \/ cleanupCall
    \/ cleanupLock
    \/ \E t \in SweepTargets, old \in 0..SweepConns : cleanupVisit(t, old)
    \/ cleanupClose
    \/ cleanupUnlock

InitSweep == InitCP /\ InitWP({SmallConfig}) /\ optimal = wcfg.MaxWorkers /\ InitScheduler({DefaultSchedule})

\* The pool directory under callers of GetConnection and the cleanup sweep.
SpecSweep == InitSweep /\ [][NextSweep]_vars

\* A caller of GetConnection waits for the directory lock that cleanup holds.
BlockedBehindCleanup(g) ==
    /\ getPc[g] \in {"rlock", "lock"}
    /\ poolMutex.writer = "cleanup"

\* C38: while the cleanup sweep closes connections it does not hold the
\* directory lock, and no GetConnection for another target waits for that
\* lock behind a close in progress.
C38_NoCloseUnderDirectoryLock ==
    /\ sweepPc = "closing" => poolMutex.writer # "cleanup"
    /\ \A g \in Getters :
          ~(sweepPc = "closing" /\ getTarget[g] # sweepTarget /\ BlockedBehindCleanup(g))

(***************************************************************************)
(*          The batch semaphore under the profiles of config.New           *)
(***************************************************************************)

\* runtime.NumCPU() of the hosts considered.
MaxCores == 2
\* config.New: WorkerCount of the FullPower and of the Conservation profile
\* (Go's integer division).
ProfileWorkerCount(cpuCores, name) ==
    IF name = "FullPower" THEN cpuCores * 3 ELSE cpuCores \div 2

\* config.New on a host with cpuCores cores, and GetCurrentProfile in the
\* batch function: the semaphore is made with the profile's WorkerCount.
configNew(cpuCores, name) ==
    /\ scanPc = "idle"
    /\ semCap' = ProfileWorkerCount(cpuCores, name)
    /\ UNCHANGED <<resVars, cpVars, wpVars, schVars, batchVars, countVars, alertVars, loopVars,
                   domVars, lockVars, scanPc, batchIndex, units, scanWg, scanSem,
                   checkpoint>>

NextCores ==
    \/ \E cpuCores \in 1..MaxCores, name \in {"FullPower", "Conservation"} :
          configNew(cpuCores, name)
    \/ scanStart
    \/ \E u \in BatchUnits : scanLaunch(u)
    \/ \E b \in ScanBatches, u \in BatchUnits : unitAcquire(b, u)
    \/ \E b \in ScanBatches, u \in BatchUnits, ok \in BOOLEAN : unitRelease(b, u, ok)
    \/ \E b \in ScanBatches, u \in BatchUnits : unitDone(b, u)
    \/ scanWait
    \/ scanSave

InitCores == InitScan

\* The batch loop under every profile config.New builds for 1..MaxCores cores.
SpecCores == InitCores /\ [][NextCores]_vars

RunningUnits == {bu \in ScanBatches \X BatchUnits : units[bu[1]][bu[2]] = "running"}

\* C39: under every profile of config.New at most WorkerCount units of work
\* run at once, and a unit waiting for the semaphore can take a token or a
\* running unit holds one that it will give back, so that no unit waits
\* forever and wg.Wait returns.
C39_NoUnitBlocksForever ==
    /\ Cardinality(RunningUnits) <= semCap
    /\ \A b \in ScanBatches, u \in BatchUnits :
          units[b][u] = "acquire" => (scanSem < semCap \/ RunningUnits # {})

(***************************************************************************)
(*              resolveDNS over interrupted and resumed runs               *)
(***************************************************************************)

\* Length of the input list, runs of resolveDNS over it, and the BatchSize of
\* the profiles (5000 and 500, scaled down).
InputDomains == 4
MaxRuns == 3
ResolveBatchSizes == {1, 2}
InputIndexes == 0..(InputDomains - 1)

\* resolveDNS: the domains from index from on that are not processed, in order.
RECURSIVE RemainingFrom(_)
RemainingFrom(from) ==
    IF from >= InputDomains THEN <<>>
    ELSE IF from \in processedDomains THEN RemainingFrom(from + 1)
    ELSE <<from>> \o RemainingFrom(from + 1)

rdTotalBatches == (Len(remainingDomains) + rdBatchSize - 1) \div rdBatchSize
rdBatchStart == rdBatchIndex * rdBatchSize
rdBatchEnd == Min(rdBatchStart + rdBatchSize, Len(remainingDomains))
rdBatch == {remainingDomains[k] : k \in (rdBatchStart + 1)..rdBatchEnd}

\* Progress.ItemIndex of the row saved after a batch: start + len(batch).
ItemIndexPastBatch(start, n) == start + n + 1
ItemIndex(start, n) == start + n

\* resolveDNS is called: GetLastProgress, GetProcessedDomains, the filter and
\* the batch size of the current profile.
resolveDNS(size) ==
    /\ rdPc \in {"idle", "done"}
    /\ rdRuns < MaxRuns
    /\ rdRuns' = rdRuns + 1
    /\ startIndex' = IF lastProgress # -1 THEN lastProgress ELSE 0
    /\ remainingDomains' = RemainingFrom(startIndex')
    /\ rdBatchSize' = size
    /\ rdBatchIndex' = 0
    /\ rdPc' = "loop"
    /\ UNCHANGED <<cpVars, wpVars, schVars, batchVars, countVars, alertVars, scanVars,
                   loopVars, domVars, lockVars, lastProgress, attempted,
                   processedDomains>>

\* One pass of the loop up to the return of processDNSBatch: every domain of
\* the batch is passed to ResolveDomain, and those that resolve are saved.
resolveBatch(resolved) ==
    /\ rdPc = "loop"
    /\ rdBatchIndex < rdTotalBatches
    /\ resolved \subseteq rdBatch
    /\ attempted' = attempted \cup rdBatch
    /\ processedDomains' = processedDomains \cup resolved
    /\ rdPc' = "save"
    /\ UNCHANGED <<cpVars, wpVars, schVars, batchVars, countVars, alertVars, scanVars,
                   loopVars, domVars, lockVars, rdRuns, startIndex, remainingDomains,
                   rdBatchIndex, rdBatchSize, lastProgress>>

\* db.SaveProgress with ItemIndex = start + len(batch); batchIndex++.
resolveSaveProgress ==
    /\ rdPc = "save"
    /\ lastProgress' = ItemIndex(rdBatchStart, rdBatchEnd - rdBatchStart)
    /\ rdBatchIndex' = rdBatchIndex + 1
    /\ rdPc' = "loop"
    /\ UNCHANGED <<cpVars, wpVars, schVars, batchVars, countVars, alertVars, scanVars,
                   loopVars, domVars, lockVars, rdRuns, startIndex, remainingDomains,
                   rdBatchSize, attempted, processedDomains>>

\* The loop ends and resolveDNS returns nil.
resolveReturn ==
    /\ rdPc = "loop"
    /\ rdBatchIndex >= rdTotalBatches
    /\ rdPc' = "done"
    /\ UNCHANGED <<cpVars, wpVars, schVars, batchVars, countVars, alertVars, scanVars,
                   loopVars, domVars, lockVars, rdRuns, startIndex, remainingDomains,
                   rdBatchIndex, rdBatchSize, lastProgress, attempted, processedDomains>>

\* The process is interrupted between two statements of the loop.
resolveInterrupt ==
    /\ rdPc \in {"loop", "save"}
    /\ rdPc' = "idle"
    /\ UNCHANGED <<cpVars, wpVars, schVars, batchVars, countVars, alertVars, scanVars,
                   loopVars, domVars, lockVars, rdRuns, startIndex, remainingDomains,
                   rdBatchIndex, rdBatchSize, lastProgress, attempted, processedDomains>>

\* The process is interrupted inside processDNSBatch: some domains of the
\* batch were passed to ResolveDomain, some of these saved.
resolveInterruptInBatch(passed, resolved) ==
    /\ rdPc = "loop"
    /\ rdBatchIndex < rdTotalBatches
    /\ passed \subseteq rdBatch
    /\ resolved \subseteq passed
    /\ attempted' = attempted \cup passed
    /\ processedDomains' = processedDomains \cup resolved
    /\ rdPc' = "idle"
    /\ UNCHANGED <<cpVars, wpVars, schVars, batchVars, countVars, alertVars, scanVars,
                   loopVars, domVars, lockVars, rdRuns, startIndex, remainingDomains,
                   rdBatchIndex, rdBatchSize, lastProgress>>

NextResolve ==
    \/ \E size \in ResolveBatchSizes : resolveDNS(size)
    \/ \E resolved \in SUBSET InputIndexes : resolveBatch(resolved)
    \/ resolveSaveProgress
    \/ resolveReturn
    \/ resolveInterrupt
    \/ \E passed \in SUBSET InputIndexes, resolved \in SUBSET InputIndexes :
          resolveInterruptInBatch(passed, resolved)

InitResolve == InitScan

\* resolveDNS over one input list, run up to MaxRuns times.
SpecResolve == InitResolve /\ [][NextResolve]_vars

\* C40: over interrupted and resumed runs of resolveDNS on one input list,
\* every domain at an index below the start index of a resumed run was
\* passed to the resolver by an earlier run, and when a run returns every
\* domain of the list has been passed to the resolver at least once.
C40_NoDomainSkipped ==
    /\ [][\A size \in ResolveBatchSizes :
             resolveDNS(size) => \A i \in InputIndexes : i < startIndex' => i \in attempted]_vars
    /\ [](rdPc = "done" => \A i \in InputIndexes : i \in attempted)

\* C40 witness: the third run, resumed from a progress row written by a
\* resumed run, has returned; a domain that never resolved was still passed
\* to the resolver.
C40_ResumedTwiceAndDone ==
    /\ rdPc = "done"
    /\ rdRuns = 3
    /\ startIndex > 0
    /\ startIndex < InputDomains
    /\ remainingDomains # <<>>
    /\ processedDomains # InputIndexes
    /\ attempted = InputIndexes

====
